---- MODULE Spec2Model ----
(***************************************************************************)
(* Verification model of the core of matter-rs: the certificate chain      *)
(* verifier (matter/src/cert/mod.rs), the Data Model request paths         *)
(* (matter/src/data_model/core.rs), served by one thread or by several on  *)
(* the shared Node, and the CASE handshake                                 *)
(* (matter/src/secure_channel/case.rs).                                    *)
(***************************************************************************)
EXTENDS Integers, Sequences, FiniteSets, TLC

VARIABLES
    \* ---- certificate chain verifier (cert/mod.rs) ----
    vphase,      \* "idle" | "walking" | "failed" | "final"
    vcert,       \* the Cert the CertVerifier is anchored at (CertVerifier.cert)
    vparent,     \* the candidate parent handed to the last add_cert
    vresult,     \* what the last add_cert / finalise returned
    sigChecked,  \* did the last add_cert reach KeyPair::verify_msg
    linksOk,     \* history: every link added so far matched and verified
    nlinks,      \* history: number of add_cert calls made on this walk
    \* ---- data model (data_model/core.rs) ----
    node,        \* the Node behind DataModel.node
    req,         \* the request handled last
    tw,          \* the TLVWriter of the response: a sequence of entries
    calls,       \* the cluster handler calls made by the last request
    complete,    \* Transaction completion flag of the last request
    origin,      \* history: for each entry of tw, the index of the request
                 \* path whose handling appended it
    \* ---- requests served by parallel threads (DataModel.node: Arc<RwLock>) ----
    lock,        \* the RwLock around the Node: its readers and its writer
    th,          \* per thread: the request it serves and how far it has got
    \* ---- CASE handshake (secure_channel/case.rs) ----
    exchange,    \* the exchange of the handshake: closed flag and exchange data
    proto_rx,    \* the handshake message handled last
    proto_tx,    \* the reply written for it: a sequence of items
    case_result, \* what the handler returned
    sessions,    \* the session table (SessionMgr.sessions)
    \* ---- sessions and exchanges (src/transport) ----
    session,     \* one Session: its id, peer address and exchanges
    sess_ret,    \* the last SessionMgr / Session call and what it returned
    \* ---- certificate encodings (cert/mod.rs) ----
    cert_in,     \* the Matter-TLV certificate handed to Cert::new
    cert_out,    \* what decoding and the two encoders made of it
    \* ---- Interaction Model read handler (interaction_model/read.rs) ----
    im_result,   \* what handle_read_req returned
    \* ---- derive(ToTLV, FromTLV) (matter_macro_derive/src/lib.rs) ----
    derived,     \* the annotated struct, the element decoded and what the macros made
    \* ---- key-usage bit string (cert/mod.rs) ----
    keybits,     \* the key-usage bitmask and the two bytes made of it
    \* ---- fabric manager lock during Sigma1 (secure_channel/case.rs) ----
    fabmgr       \* the fabric table, its lock, the handler's and the updater's position

vars == <<vphase, vcert, vparent, vresult, sigChecked, linksOk, nlinks,
          node, req, tw, calls, complete, origin, lock, th,
          exchange, proto_rx, proto_tx, case_result, sessions,
          session, sess_ret, cert_in, cert_out, im_result,
          derived, keybits, fabmgr>>

certVars == <<vphase, vcert, vparent, vresult, sigChecked, linksOk, nlinks>>
dmVars == <<node, req, tw, calls, complete, origin>>
lockVars == <<lock, th>>
caseVars == <<exchange, proto_rx, proto_tx, case_result, sessions>>
sessVars == <<session, sess_ret>>
codecVars == <<cert_in, cert_out>>
miscVars == <<derived, keybits, fabmgr>>

\* Option::None of an integer-valued field
None == -1

(***************************************************************************)
(* Bounds                                                                  *)
(***************************************************************************)
MaxKeyId == 2
MaxKey == 2
MaxChain == 3
MaxEndpoints == 2
MaxPaths == 2
MaxDataVer == 2
MaxExchId == 5
MaxDn == 2
MaxEku == 2
MaxExts == 2
MaxFields == 2
MaxFabricVer == 4

(***************************************************************************)
(* Certificates                                                            *)
(***************************************************************************)
KeyIds == 1..MaxKeyId
Keys == 1..MaxKey

\* SignAlgoValue::ECDSAWithSHA256
ECDSAWithSHA256 == 1

\* A signature is modelled by the key that produced it over the certificate's
\* DER; 0 is a signature no key verifies (corrupted content or signature).
Cert == [auth_key_id : KeyIds \cup {None},
         subj_key_id : KeyIds \cup {None},
         pubkey : Keys,
         sign_algo : {0, ECDSAWithSHA256},
         signature : Keys \cup {0}]

NoCert == [auth_key_id |-> None, subj_key_id |-> None, pubkey |-> 0,
           sign_algo |-> 0, signature |-> 0]

Ok(v) == [ok |-> TRUE, val |-> v]
Err(e) == [ok |-> FALSE, err |-> e]

\* Cert::get_subject_key_id
get_subject_key_id(c) ==
    IF c.subj_key_id # None THEN Ok(c.subj_key_id) ELSE Err("Invalid")

is_authority_always(our, their) == Ok(TRUE)

\* Cert::is_authority
is_authority(our, their) ==
    IF our.auth_key_id # None
    THEN LET their_subject == get_subject_key_id(their)
         IN IF ~their_subject.ok THEN their_subject
            ELSE IF our.auth_key_id = their_subject.val
                 THEN Ok(TRUE) ELSE Ok(FALSE)
    ELSE Ok(FALSE)

\* Cert::as_asn1: the DER of the certificate without its signature.  Cert::encode
\* fails with Invalid on an unknown signature algorithm.
as_asn1(c) ==
    IF c.sign_algo = ECDSAWithSHA256 THEN Ok(c) ELSE Err("Invalid")

\* KeyPair::verify_msg(asn1, signature) under the parent's public key
verify_msg(pubkey, asn1, signature) ==
    IF signature = pubkey THEN Ok(TRUE) ELSE Err("InvalidSignature")

\* Result<CertVerifier, Error> of add_cert, with the note whether verify_msg ran
VOk(c, s) == [ok |-> TRUE, val |-> c, sig |-> s]
VErr(e, s) == [ok |-> FALSE, err |-> e, sig |-> s]

add_cert_nosig(cert, parent) ==
    LET auth == is_authority(cert, parent)
    IN IF ~auth.ok THEN VErr(auth.err, FALSE)
       ELSE IF ~auth.val THEN VErr("InvalidAuthKey", FALSE)
            ELSE VOk(parent, FALSE)

add_cert_sigfirst(cert, parent) ==
    LET asn1 == as_asn1(cert)
        auth == is_authority(cert, parent)
    IN IF ~asn1.ok THEN VErr(asn1.err, FALSE)
       ELSE LET v == verify_msg(parent.pubkey, asn1.val, cert.signature)
            IN IF ~v.ok THEN VErr(v.err, TRUE)
               ELSE IF ~auth.ok THEN VErr(auth.err, TRUE)
                    ELSE IF ~auth.val THEN VErr("InvalidAuthKey", TRUE)
                         ELSE VOk(parent, TRUE)

\* CertVerifier::add_cert
add_cert(cert, parent) ==
    LET auth == is_authority(cert, parent)
    IN IF ~auth.ok THEN VErr(auth.err, FALSE)
       ELSE IF ~auth.val THEN VErr("InvalidAuthKey", FALSE)
            ELSE LET asn1 == as_asn1(cert)
                 IN IF ~asn1.ok THEN VErr(asn1.err, FALSE)
                    ELSE LET v == verify_msg(parent.pubkey, asn1.val, cert.signature)
                         IN IF ~v.ok THEN VErr(v.err, TRUE)
                            ELSE VOk(parent, TRUE)

finalise_noselfcheck(cert) == VOk(cert, FALSE)

\* CertVerifier::finalise: add_cert of the anchor to itself; the verifier it
\* yields is dropped.
finalise(cert) == add_cert(cert, cert)

\* What the chain property speaks of, stated on the certificates themselves.
KeyIdMatches(leaf, parent) ==
    /\ leaf.auth_key_id # None
    /\ parent.subj_key_id # None
    /\ leaf.auth_key_id = parent.subj_key_id

SignatureVerifies(leaf, parent) ==
    /\ leaf.sign_algo = ECDSAWithSHA256
    /\ leaf.signature = parent.pubkey

SelfSigned(c) == KeyIdMatches(c, c) /\ SignatureVerifies(c, c)

(***************************************************************************)
(* Certificate verifier actions                                            *)
(***************************************************************************)
\* Cert::verify_chain_start / CertVerifier::new
VerifyChainStart(leaf) ==
    /\ vphase = "idle"
    /\ vphase' = "walking"
    /\ vcert' = leaf
    /\ vparent' = NoCert
    /\ vresult' = "NoResult"
    /\ sigChecked' = FALSE
    /\ linksOk' = TRUE
    /\ nlinks' = 0
    /\ UNCHANGED <<dmVars, lockVars, caseVars, sessVars, codecVars, im_result, miscVars>>

AddCert(parent) ==
    /\ vphase = "walking"
    /\ nlinks < MaxChain
    /\ LET r == add_cert(vcert, parent)
       IN /\ vresult' = (IF r.ok THEN "Ok" ELSE r.err)
          /\ sigChecked' = r.sig
          /\ vparent' = parent
          /\ IF r.ok
             THEN vphase' = "walking" /\ vcert' = r.val
             ELSE vphase' = "failed" /\ vcert' = vcert
    /\ linksOk' = (linksOk /\ KeyIdMatches(vcert, parent)
                           /\ SignatureVerifies(vcert, parent))
    /\ nlinks' = nlinks + 1
    /\ UNCHANGED <<dmVars, lockVars, caseVars, sessVars, codecVars, im_result, miscVars>>

Finalise ==
    /\ vphase = "walking"
    /\ LET r == finalise(vcert)
       IN /\ vresult' = (IF r.ok THEN "Ok" ELSE r.err)
          /\ sigChecked' = r.sig
    /\ vphase' = "final"
    /\ vparent' = vcert
    /\ UNCHANGED <<vcert, linksOk, nlinks>>
    /\ UNCHANGED <<dmVars, lockVars, caseVars, sessVars, codecVars, im_result, miscVars>>

\* The verifier (or the error it returned) goes out of scope.
DropVerifier ==
    /\ vphase \in {"failed", "final"}
    /\ vphase' = "idle"
    /\ vcert' = NoCert
    /\ vparent' = NoCert
    /\ vresult' = "NoResult"
    /\ sigChecked' = FALSE
    /\ linksOk' = TRUE
    /\ nlinks' = 0
    /\ UNCHANGED <<dmVars, lockVars, caseVars, sessVars, codecVars, im_result, miscVars>>

CertInitVars ==
    /\ vphase = "idle"
    /\ vcert = NoCert
    /\ vparent = NoCert
    /\ vresult = "NoResult"
    /\ sigChecked = FALSE
    /\ linksOk = TRUE
    /\ nlinks = 0

DMIdle ==
    /\ node = <<>>
    /\ req = [kind |-> "none", paths |-> <<>>, data |-> "NoParams", has_fabric |-> FALSE]
    /\ tw = <<>>
    /\ calls = <<>>
    /\ complete = FALSE
    /\ origin = <<>>

\* the threads and the lock before any request is served
Threads == {1, 2}

NoThread == 0

IdleThread == [pc |-> "idle", kind |-> "none", paths |-> <<>>, data |-> "NoParams",
               i |-> 0, tw |-> <<>>, seen |-> <<>>]

LockIdle ==
    /\ lock = [readers |-> {}, writer |-> NoThread]
    /\ th = [t \in Threads |-> IdleThread]

\* Exchange::new: open, no exchange data
NoCaseSession == [state |-> "None", initiator_sessid |-> 0, tt_hash |-> <<>>]

NewExchangeData == [closed |-> FALSE, data |-> NoCaseSession]

NoMessage == [opcode |-> "None"]

CaseIdle ==
    /\ exchange = NewExchangeData
    /\ proto_rx = NoMessage
    /\ proto_tx = <<>>
    /\ case_result = "NoResult"
    /\ sessions = <<>>

\* no session call made yet: an empty Session, nothing returned
NoSession == [session_id |-> 0, peer_addr |-> None, exchanges |-> <<>>]

NoCall == [op |-> "none"]

SessIdle ==
    /\ session = NoSession
    /\ sess_ret = NoCall

\* no certificate handed in yet
CodecIdle ==
    /\ cert_in = <<>>
    /\ cert_out = [op |-> "none"]

ImIdle == im_result = "NoResult"

\* no macro expanded, no bit string made, no fabric manager constructed yet
MiscIdle ==
    /\ derived = NoCall
    /\ keybits = NoCall
    /\ fabmgr = NoCall

RestIdle == SessIdle /\ CodecIdle /\ ImIdle /\ MiscIdle

CertInit == CertInitVars /\ DMIdle /\ LockIdle /\ CaseIdle /\ RestIdle

CertNext ==
    \/ \E leaf \in Cert : VerifyChainStart(leaf)
    \/ \E parent \in Cert : AddCert(parent)
    \/ Finalise
    \/ DropVerifier

CertSpec == CertInit /\ [][CertNext]_vars

(***************************************************************************)
(* Data model: identifiers and paths                                       *)
(***************************************************************************)
CLUSTER_GENERAL_COMMISSIONING_ID == 48
\* echo_cluster::ID of the test fixtures
ECHO_CLUSTER_ID == 43981
\* the cluster / attribute / command id no cluster knows (0x1234 in the tests)
UNKNOWN_ID == 4660

\* GenCommCluster attributes
BreadCrumb == 0
BasicCommissioningInfo == 1
RegConfig == 2
LocationCapability == 3

\* echo cluster attributes: Att1 is read-only, AttOpt is an optional read-write
\* attribute an instance may lack, AttWrite is write-only
Att1 == 0
AttOpt == 1
AttWrite == 2

\* GenericPath: endpoint, cluster and leaf are Option values
GenericPath(e, c, l) == [endpoint |-> e, cluster |-> c, leaf |-> l]

PathEndpoints == {None} \cup (0..MaxEndpoints)
PathClusters == {None, CLUSTER_GENERAL_COMMISSIONING_ID, ECHO_CLUSTER_ID, UNKNOWN_ID}
PathLeaves == {None, 0, 1, 2, 3, 4, UNKNOWN_ID}

Paths == [endpoint : PathEndpoints, cluster : PathClusters, leaf : PathLeaves]

\* The paths that requests with several paths are built from.
ListPaths ==
    { GenericPath(None, ECHO_CLUSTER_ID, AttOpt),
      GenericPath(0, ECHO_CLUSTER_ID, Att1),
      GenericPath(1, ECHO_CLUSTER_ID, AttWrite),
      GenericPath(0, CLUSTER_GENERAL_COMMISSIONING_ID, None),
      GenericPath(MaxEndpoints, ECHO_CLUSTER_ID, Att1) }

PathLists ==
    { <<p>> : p \in Paths } \cup
    UNION { [1..n -> ListPaths] : n \in 2..MaxPaths }

\* GenericPath::not_wildcard
not_wildcard(gp) ==
    IF gp.endpoint # None /\ gp.cluster # None /\ gp.leaf # None
    THEN Ok(<<gp.endpoint, gp.cluster, gp.leaf>>)
    ELSE Err("Invalid")

(***************************************************************************)
(* Data model: the Node tree                                               *)
(***************************************************************************)
Attribute(id, access) == [id |-> id, value |-> 0, access |-> access]

\* GenCommCluster::new: attributes in the order they are added
GenCommCluster ==
    [id |-> CLUSTER_GENERAL_COMMISSIONING_ID,
     attributes |-> << Attribute(BreadCrumb, "RW"), Attribute(RegConfig, "RV"),
                       Attribute(LocationCapability, "RV"),
                       Attribute(BasicCommissioningInfo, "RV") >>,
     dataver |-> 0,
     failsafe |-> "Idle"]

EchoCluster(withOpt) ==
    [id |-> ECHO_CLUSTER_ID,
     attributes |-> IF withOpt
                    THEN << Attribute(Att1, "RV"), Attribute(AttOpt, "RW"),
                            Attribute(AttWrite, "W") >>
                    ELSE << Attribute(Att1, "RV"), Attribute(AttWrite, "W") >>,
     dataver |-> 0,
     failsafe |-> "Idle"]

\* Endpoint 0 is the root endpoint: the general-commissioning cluster and an echo
\* cluster.
RootEndpoint == [clusters |-> << GenCommCluster, EchoCluster(TRUE) >>]

\* A further endpoint hosts no cluster, or an echo cluster without the
\* optional attribute.
Endpoints == { [clusters |-> <<>>], [clusters |-> << EchoCluster(FALSE) >>] }

\* Node::new followed by the device set-up: endpoints 0..n-1
Nodes ==
    UNION { { [endpoints |-> [i \in 1..n |-> IF i = 1 THEN RootEndpoint ELSE f[i]]] :
                f \in [1..n -> Endpoints] } : n \in 1..MaxEndpoints }

\* From<Error> for IMStatusCode
IMStatusOf(e) ==
    CASE e = "EndpointNotFound" -> "UnsupportedEndpoint"
      [] e = "ClusterNotFound" -> "UnsupportedCluster"
      [] e = "AttributeNotFound" -> "UnsupportedAttribute"
      [] e = "CommandNotFound" -> "UnsupportedCommand"
      [] OTHER -> "Failure"

RECURSIVE Concat(_)
Concat(ss) == IF ss = <<>> THEN <<>> ELSE Head(ss) \o Concat(Tail(ss))

\* index of the cluster with the given id in an endpoint, 0 when absent
ClusterIndex(ep, c) ==
    IF \E k \in 1..Len(ep.clusters) : ep.clusters[k].id = c
    THEN CHOOSE k \in 1..Len(ep.clusters) : ep.clusters[k].id = c
    ELSE 0

\* Node::get_cluster / get_cluster_mut: the position <<endpoint index, cluster index>>
get_cluster(n, e, c) ==
    IF e + 1 > Len(n.endpoints) THEN Err("EndpointNotFound")
    ELSE LET k == ClusterIndex(n.endpoints[e + 1], c)
         IN IF k = 0 THEN Err("ClusterNotFound") ELSE Ok(<<e + 1, k>>)

\* the clusters of endpoint index ei that a path matches, in cluster order
MatchingClusters(n, ei, gp) ==
    LET cs == n.endpoints[ei].clusters
        Matches(k) == gp.cluster = None \/ cs[k].id = gp.cluster
    IN SelectSeq([k \in 1..Len(cs) |-> k], Matches)

\* Node::for_each_cluster / for_each_cluster_mut: the clusters visited, as
\* <<endpoint index, cluster index>>, endpoints ascending
ClusterTargets(n, gp) ==
    Concat([ei \in 1..Len(n.endpoints) |->
              IF gp.endpoint = None \/ gp.endpoint = ei - 1
              THEN LET m == MatchingClusters(n, ei, gp)
                   IN [j \in 1..Len(m) |-> <<ei, m[j]>>]
              ELSE <<>>])

\* Node::for_each_attribute: the attributes visited, as <<endpoint index, cluster
\* index, attribute index>>; the traversal does not look at access flags
AttributeTargets(n, gp) ==
    LET ct == ClusterTargets(n, gp)
    IN Concat([j \in 1..Len(ct) |->
                 LET as == n.endpoints[ct[j][1]].clusters[ct[j][2]].attributes
                     Matches(k) == gp.leaf = None \/ as[k].id = gp.leaf
                     m == SelectSeq([k \in 1..Len(as) |-> k], Matches)
                 IN [k \in 1..Len(m) |-> <<ct[j][1], ct[j][2], m[k]>>]])

ClusterAt(n, t) == n.endpoints[t[1]].clusters[t[2]]

\* the GenericPath of a visited cluster: endpoint and cluster made concrete
PathOfCluster(n, t, gp) == GenericPath(t[1] - 1, ClusterAt(n, t).id, gp.leaf)

PathOfAttribute(n, t) ==
    GenericPath(t[1] - 1, ClusterAt(n, t).id, ClusterAt(n, t).attributes[t[3]].id)

\* index of the attribute with the given id in a cluster, 0 when absent
AttributeIndex(c, a) ==
    IF \E k \in 1..Len(c.attributes) : c.attributes[k].id = a
    THEN CHOOSE k \in 1..Len(c.attributes) : c.attributes[k].id = a
    ELSE 0

(***************************************************************************)
(* Data model: response entries                                            *)
(***************************************************************************)
Entry(kind, path, status, dataver, value) ==
    [kind |-> kind, path |-> path, status |-> status, dataver |-> dataver,
     value |-> value]

\* ib::AttrStatus / ib::AttrResp::Status
AttrStatus(path, status) == Entry("AttrStatus", path, status, 0, 0)
\* ib::AttrResp::Data
AttrData(path, dataver, value) == Entry("AttrData", path, "Sucess", dataver, value)
\* an AttrResp whose data closure failed after its head was written
PartialAttrData(path, dataver) == Entry("Partial", path, "Sucess", dataver, 0)

\* TLVWriter::rewind_to
rewind_to(w, anchor) == SubSeq(w, 1, anchor)

Call(op, path, res) == [op |-> op, path |-> path, res |-> res]

\* History of one iteration of a request's loop over its paths: the entries the
\* handling of the i-th path left in the writer (from st0 to st1) are noted as
\* coming from path i.
Produced(st0, st1, i) ==
    LET kept == IF Len(st1.tw) < Len(st0.origin) THEN Len(st1.tw) ELSE Len(st0.origin)
    IN [st1 EXCEPT !.origin = SubSeq(st0.origin, 1, kept)
                                \o [k \in 1..(Len(st1.tw) - kept) |-> i]]

(***************************************************************************)
(* Data model: attribute reads                                             *)
(***************************************************************************)
\* Cluster::read_attribute: the value, or the status the read fails with
read_attribute(c, attr_id) ==
    LET k == AttributeIndex(c, attr_id)
    IN IF k = 0 THEN Err("UnsupportedAttribute")
       ELSE IF c.attributes[k].access = "W" THEN Err("UnsupportedRead")
            ELSE Ok(c.attributes[k].value)

\* handle_read_attr_data without the rewind on error
handle_read_attr_data_norewind(c, st, path, attr_id) ==
    LET data == read_attribute(c, attr_id)
        log == Append(st.calls, Call("read_attribute", path,
                                     IF data.ok THEN "Ok" ELSE data.err))
    IN IF data.ok
       THEN [st EXCEPT !.tw = Append(st.tw, AttrData(path, c.dataver, data.val)),
                       !.calls = log, !.res = "Ok"]
       ELSE [st EXCEPT !.tw = Append(st.tw, PartialAttrData(path, c.dataver)),
                       !.calls = log, !.res = data.err]

\* DataModel::handle_read_attr_data.  st carries the node, the writer, the call
\* log and, in res, the result of the call.
handle_read_attr_data(c, st, path, attr_id) ==
    LET anchor == Len(st.tw)
        data == read_attribute(c, attr_id)
        log == Append(st.calls, Call("read_attribute", path,
                                     IF data.ok THEN "Ok" ELSE data.err))
    IN IF data.ok
       THEN [st EXCEPT !.tw = Append(st.tw, AttrData(path, c.dataver, data.val)),
                       !.calls = log, !.res = "Ok"]
       ELSE [st EXCEPT !.tw = rewind_to(Append(st.tw, PartialAttrData(path, c.dataver)),
                                        anchor),
                       !.calls = log, !.res = data.err]

RECURSIVE ReadEach(_, _)
\* the closure of the wildcard branch of handle_read_attr_path, run on each
\* visited attribute; the result of handle_read_attr_data is dropped
ReadEach(targets, st) ==
    IF targets = <<>> THEN st
    ELSE LET t == Head(targets)
             path == PathOfAttribute(st.node, t)
         IN ReadEach(Tail(targets),
                     handle_read_attr_data(ClusterAt(st.node, t), st, path, path.leaf))

RECURSIVE ReadEachWithStatus(_, _)
ReadEachWithStatus(targets, st) ==
    IF targets = <<>> THEN st
    ELSE LET t == Head(targets)
             path == PathOfAttribute(st.node, t)
             r == handle_read_attr_data(ClusterAt(st.node, t), st, path, path.leaf)
         IN ReadEachWithStatus(Tail(targets),
               IF r.res = "Ok" THEN r
               ELSE [r EXCEPT !.tw = Append(r.tw, AttrStatus(path, r.res))])

handle_read_attr_path_wcstatus(st, attr_path) ==
    LET gen_path == attr_path
        nw == not_wildcard(gen_path)
    IN IF nw.ok
       THEN LET cluster == get_cluster(st.node, nw.val[1], nw.val[2])
                r == IF cluster.ok
                     THEN handle_read_attr_data(ClusterAt(st.node, cluster.val), st,
                                                attr_path, nw.val[3])
                     ELSE [st EXCEPT !.res = IMStatusOf(cluster.err)]
            IN IF r.res # "Ok"
               THEN [r EXCEPT !.tw = Append(r.tw, AttrStatus(gen_path, r.res))]
               ELSE r
       ELSE ReadEachWithStatus(AttributeTargets(st.node, gen_path), st)

\* DataModel::handle_read_attr_path
handle_read_attr_path(st, attr_path) ==
    LET gen_path == attr_path
        nw == not_wildcard(gen_path)
    IN IF nw.ok
       THEN LET cluster == get_cluster(st.node, nw.val[1], nw.val[2])
                r == IF cluster.ok
                     THEN handle_read_attr_data(ClusterAt(st.node, cluster.val), st,
                                                attr_path, nw.val[3])
                     ELSE [st EXCEPT !.res = IMStatusOf(cluster.err)]
            IN IF r.res # "Ok"
               THEN [r EXCEPT !.tw = Append(r.tw, AttrStatus(gen_path, r.res))]
               ELSE r
       ELSE ReadEach(AttributeTargets(st.node, gen_path), st)

RECURSIVE ReadPathsFrom(_, _, _)
ReadPathsFrom(paths, st, i) ==
    IF i > Len(paths) THEN st
    ELSE ReadPathsFrom(paths, Produced(st, handle_read_attr_path(st, paths[i]), i),
                       i + 1)

RECURSIVE ReadPathsDownFrom(_, _, _)
ReadPathsDownFrom(paths, st, i) ==
    IF i < 1 THEN st
    ELSE ReadPathsDownFrom(paths, Produced(st, handle_read_attr_path(st, paths[i]), i),
                           i - 1)

\* consume_read_attr iterating attr_requests from its end
ReadPaths_reversed(paths, st) == ReadPathsDownFrom(paths, st, Len(paths))

\* the loop of consume_read_attr over attr_requests
ReadPaths(paths, st) == ReadPathsFrom(paths, st, 1)

(***************************************************************************)
(* Data model: attribute writes                                            *)
(***************************************************************************)
\* AttrDataType of a write request: a TLV value, or a closure
AttrDataTypes == {[kind |-> "Tlv", value |-> 1], [kind |-> "Closure", value |-> 0]}

\* Cluster::write_attribute: the cluster after the write and its result; a
\* successful write stores the value and advances the data version by one
write_attribute(c, value, attr_id) ==
    LET k == AttributeIndex(c, attr_id)
    IN IF k = 0 THEN [cluster |-> c, res |-> Err("UnsupportedAttribute")]
       ELSE IF c.attributes[k].access = "RV"
            THEN [cluster |-> c, res |-> Err("UnsupportedWrite")]
            ELSE [cluster |-> [c EXCEPT !.attributes[k].value = value,
                                        !.dataver = c.dataver + 1],
                  res |-> Ok(TRUE)]

SetCluster(n, t, c) == [n EXCEPT !.endpoints[t[1]].clusters[t[2]] = c]

handle_write_attr_data_noskip(st, t, path, data, attr_id, skip_error) ==
    LET c == ClusterAt(st.node, t)
        w == IF data.kind = "Closure"
             THEN [cluster |-> c, res |-> Err("Failure")]
             ELSE write_attribute(c, data.value, attr_id)
        status_code == IF w.res.ok THEN "Sucess" ELSE w.res.err
    IN [st EXCEPT !.node = SetCluster(st.node, t, w.cluster),
                  !.calls = Append(st.calls,
                                   Call(IF data.kind = "Closure" THEN "not_supported"
                                        ELSE "write_attribute", path, status_code)),
                  !.tw = Append(st.tw, AttrStatus(path, status_code))]

\* handle_write_attr_data reporting Sucess whatever write_attribute returned
handle_write_attr_data_okstatus(st, t, path, data, attr_id, skip_error) ==
    LET c == ClusterAt(st.node, t)
        w == IF data.kind = "Closure"
             THEN [cluster |-> c, res |-> Err("Failure")]
             ELSE write_attribute(c, data.value, attr_id)
    IN [st EXCEPT !.node = SetCluster(st.node, t, w.cluster),
                  !.calls = Append(st.calls,
                                   Call(IF data.kind = "Closure" THEN "not_supported"
                                        ELSE "write_attribute", path, "Sucess")),
                  !.tw = Append(st.tw, AttrStatus(path, "Sucess"))]

\* DataModel::handle_write_attr_data on the cluster at position t
handle_write_attr_data(st, t, path, data, attr_id, skip_error) ==
    LET c == ClusterAt(st.node, t)
        w == IF data.kind = "Closure"
             THEN [cluster |-> c, res |-> Err("Failure")]
             ELSE write_attribute(c, data.value, attr_id)
        status_code == IF w.res.ok THEN "Sucess" ELSE w.res.err
        called == Append(st.calls,
                         Call(IF data.kind = "Closure" THEN "not_supported"
                              ELSE "write_attribute", path, status_code))
        st1 == [st EXCEPT !.node = SetCluster(st.node, t, w.cluster),
                          !.calls = called]
    IN IF skip_error /\ ~w.res.ok
       THEN st1
       ELSE [st1 EXCEPT !.tw = Append(st.tw, AttrStatus(path, status_code))]

RECURSIVE WriteEach(_, _, _, _)
\* the closure of the wildcard branch of handle_write_attr_path, run on each
\* visited cluster
WriteEach(targets, st, gp, data) ==
    IF targets = <<>> THEN st
    ELSE LET t == Head(targets)
             path == PathOfCluster(st.node, t, gp)
             attr_id == IF path.leaf # None THEN path.leaf ELSE 0
         IN WriteEach(Tail(targets),
                      handle_write_attr_data(st, t, path, data, attr_id, TRUE),
                      gp, data)

handle_write_attr_path_anywildcard(st, attr_data) ==
    LET gen_path == attr_data.path
        nw == not_wildcard(gen_path)
    IN IF nw.ok
       THEN LET cluster == get_cluster(st.node, nw.val[1], nw.val[2])
            IN IF cluster.ok
               THEN handle_write_attr_data(st, cluster.val, gen_path, attr_data.data,
                                           nw.val[3], FALSE)
               ELSE [st EXCEPT !.tw = Append(st.tw,
                                   AttrStatus(gen_path, IMStatusOf(cluster.err)))]
       ELSE WriteEach(ClusterTargets(st.node, gen_path), st, gen_path, attr_data.data)

\* DataModel::handle_write_attr_path
handle_write_attr_path(st, attr_data) ==
    LET gen_path == attr_data.path
        nw == not_wildcard(gen_path)
    IN IF nw.ok
       THEN LET cluster == get_cluster(st.node, nw.val[1], nw.val[2])
            IN IF cluster.ok
               THEN handle_write_attr_data(st, cluster.val, gen_path, attr_data.data,
                                           nw.val[3], FALSE)
               ELSE [st EXCEPT !.tw = Append(st.tw,
                                   AttrStatus(gen_path, IMStatusOf(cluster.err)))]
       ELSE IF attr_data.path.cluster = None \/ attr_data.path.leaf = None
            THEN LET error == IF attr_data.path.cluster = None
                              THEN "UnsupportedCluster" ELSE "UnsupportedAttribute"
                 IN [st EXCEPT !.tw = Append(st.tw, AttrStatus(gen_path, error))]
            ELSE WriteEach(ClusterTargets(st.node, gen_path), st, gen_path,
                           attr_data.data)

RECURSIVE WritePathsFrom(_, _, _, _)
WritePathsFrom(paths, st, data, i) ==
    IF i > Len(paths) THEN st
    ELSE WritePathsFrom(paths,
            Produced(st, handle_write_attr_path(st, [path |-> paths[i], data |-> data]), i),
            data, i + 1)

\* the loop of consume_write_attr over write_requests
WritePaths(paths, st, data) == WritePathsFrom(paths, st, data, 1)

(***************************************************************************)
(* Data model: commands                                                    *)
(***************************************************************************)
CMD_ARMFAILSAFE_ID == 0
CMD_ARMFAILSAFE_RESPONSE_ID == 1
CMD_SETREGULATORYCONFIG_ID == 2
CMD_SETREGULATORYCONFIG_RESPONSE_ID == 3
CMD_COMMISSIONING_COMPLETE_ID == 4
CMD_COMMISSIONING_COMPLETE_RESPONSE_ID == 5

\* echo_cluster::Commands
EchoReq == 0
EchoResp == 1

\* CommissioningError
CommissioningError_Ok == 0
ErrInvalidAuth == 2

\* The command data of an invoke: the fields of ArmFailSafe (tags 0 and 1 as
\* u8), the fields of SetRegulatoryConfig (tag 1 as a string), or neither.
CmdDatas == {"ArmParams", "RegParams", "NoParams"}

\* ib::InvResp::Cmd
CmdData(path, value) == Entry("CmdData", path, "Sucess", 0, value)
\* ib::InvResp::Status
CmdStatus(path, status) == Entry("CmdStatus", path, status, 0, 0)

\* FailSafe::arm: fails when the fail-safe is already armed
FailSafe_arm(fs) == IF fs = "Idle" THEN Ok("Armed") ELSE Err("Invalid")

\* FailSafe::disarm: fails when the fail-safe is not armed
FailSafe_disarm(fs) == IF fs = "Armed" THEN Ok("Idle") ELSE Err("Invalid")

\* get_armfailsafe_params
get_armfailsafe_params(data) ==
    IF data = "ArmParams" THEN Ok(TRUE) ELSE Err("NoTagFound")

\* mutation: the transaction is marked complete before the fail-safe is armed
handle_command_armfailsafe_completes(st, t, cmd_req) ==
    LET c == ClusterAt(st.node, t)
        params == get_armfailsafe_params(cmd_req.data)
    IN IF ~params.ok THEN [st EXCEPT !.res = "InvalidCommand"]
       ELSE LET armed == FailSafe_arm(c.failsafe)
            IN IF ~armed.ok THEN [st EXCEPT !.res = "Busy", !.complete = TRUE]
               ELSE [st EXCEPT
                       !.node = SetCluster(st.node, t, [c EXCEPT !.failsafe = armed.val]),
                       !.tw = Append(st.tw,
                                 CmdData(GenericPath(0, CLUSTER_GENERAL_COMMISSIONING_ID,
                                                     CMD_ARMFAILSAFE_RESPONSE_ID),
                                         CommissioningError_Ok)),
                       !.complete = TRUE,
                       !.res = "Ok"]

\* GenCommCluster::handle_command_armfailsafe on the cluster at position t
handle_command_armfailsafe(st, t, cmd_req) ==
    LET c == ClusterAt(st.node, t)
        params == get_armfailsafe_params(cmd_req.data)
    IN IF ~params.ok THEN [st EXCEPT !.res = "InvalidCommand"]
       ELSE LET armed == FailSafe_arm(c.failsafe)
            IN IF ~armed.ok THEN [st EXCEPT !.res = "Busy"]
               ELSE [st EXCEPT
                       !.node = SetCluster(st.node, t, [c EXCEPT !.failsafe = armed.val]),
                       !.tw = Append(st.tw,
                                 CmdData(GenericPath(0, CLUSTER_GENERAL_COMMISSIONING_ID,
                                                     CMD_ARMFAILSAFE_RESPONSE_ID),
                                         CommissioningError_Ok)),
                       !.complete = TRUE,
                       !.res = "Ok"]

\* GenCommCluster::handle_command_setregulatoryconfig
handle_command_setregulatoryconfig(st, t, cmd_req) ==
    IF cmd_req.data # "RegParams" THEN [st EXCEPT !.res = "InvalidCommand"]
    ELSE [st EXCEPT
            !.tw = Append(st.tw,
                      CmdData(GenericPath(0, CLUSTER_GENERAL_COMMISSIONING_ID,
                                          CMD_SETREGULATORYCONFIG_RESPONSE_ID), 0)),
            !.complete = TRUE,
            !.res = "Ok"]

\* mutation: the fail-safe is left alone on a session without a fabric index
handle_command_commissioningcomplete_guarded(st, t, cmd_req) ==
    LET c == ClusterAt(st.node, t)
        disarmed == IF cmd_req.has_fabric THEN FailSafe_disarm(c.failsafe)
                    ELSE Err("Invalid")
        status == IF ~disarmed.ok THEN ErrInvalidAuth ELSE CommissioningError_Ok
    IN [st EXCEPT
          !.node = SetCluster(st.node, t,
                      [c EXCEPT !.failsafe = IF disarmed.ok THEN disarmed.val ELSE @]),
          !.tw = Append(st.tw,
                    CmdData(GenericPath(0, CLUSTER_GENERAL_COMMISSIONING_ID,
                                        CMD_COMMISSIONING_COMPLETE_RESPONSE_ID), status)),
          !.complete = TRUE,
          !.res = "Ok"]

\* GenCommCluster::handle_command_commissioningcomplete
handle_command_commissioningcomplete(st, t, cmd_req) ==
    LET c == ClusterAt(st.node, t)
        status1 == IF ~cmd_req.has_fabric THEN ErrInvalidAuth ELSE CommissioningError_Ok
        disarmed == FailSafe_disarm(c.failsafe)
        status == IF ~disarmed.ok THEN ErrInvalidAuth ELSE status1
    IN [st EXCEPT
          !.node = SetCluster(st.node, t,
                      [c EXCEPT !.failsafe = IF disarmed.ok THEN disarmed.val ELSE @]),
          !.tw = Append(st.tw,
                    CmdData(GenericPath(0, CLUSTER_GENERAL_COMMISSIONING_ID,
                                        CMD_COMMISSIONING_COMPLETE_RESPONSE_ID), status)),
          !.complete = TRUE,
          !.res = "Ok"]

\* GenCommCluster::handle_command
GenComm_handle_command(st, t, cmd_req) ==
    CASE cmd_req.path.leaf = CMD_ARMFAILSAFE_ID ->
            handle_command_armfailsafe(st, t, cmd_req)
      [] cmd_req.path.leaf = CMD_SETREGULATORYCONFIG_ID ->
            handle_command_setregulatoryconfig(st, t, cmd_req)
      [] cmd_req.path.leaf = CMD_COMMISSIONING_COMPLETE_ID ->
            handle_command_commissioningcomplete(st, t, cmd_req)
      [] OTHER -> [st EXCEPT !.res = "UnsupportedCommand"]

\* EchoCluster::handle_command of the test fixtures: EchoReq is answered with an
\* EchoResp command on the path of the request
Echo_handle_command(st, t, cmd_req) ==
    IF cmd_req.path.leaf = EchoReq
    THEN [st EXCEPT
            !.tw = Append(st.tw, CmdData([cmd_req.path EXCEPT !.leaf = EchoResp], 0)),
            !.complete = TRUE,
            !.res = "Ok"]
    ELSE [st EXCEPT !.res = "UnsupportedCommand"]

\* ClusterType::handle_command of the cluster at position t; res is "Ok" or the
\* IMStatusCode of the error
handle_command(st, t, cmd_req) ==
    LET c == ClusterAt(st.node, t)
        r == IF c.id = CLUSTER_GENERAL_COMMISSIONING_ID
             THEN GenComm_handle_command(st, t, cmd_req)
             ELSE Echo_handle_command(st, t, cmd_req)
    IN [r EXCEPT !.calls = Append(st.calls, Call("handle_command", cmd_req.path, r.res))]

RECURSIVE CommandEach(_, _, _)
\* the closure of the wildcard branch of handle_command_path, run on each
\* visited cluster
CommandEach(targets, st, cmd_req) ==
    IF targets = <<>> THEN st
    ELSE LET t == Head(targets)
             path == PathOfCluster(st.node, t, cmd_req.path)
             r == handle_command(st, t, [cmd_req EXCEPT !.path = path])
         IN CommandEach(Tail(targets),
               IF r.res # "Ok" /\ r.res # "UnsupportedCommand"
               THEN [r EXCEPT !.tw = Append(r.tw, CmdStatus(path, r.res))]
               ELSE r,
               cmd_req)

RECURSIVE CommandEachAllErrors(_, _, _)
CommandEachAllErrors(targets, st, cmd_req) ==
    IF targets = <<>> THEN st
    ELSE LET t == Head(targets)
             path == PathOfCluster(st.node, t, cmd_req.path)
             r == handle_command(st, t, [cmd_req EXCEPT !.path = path])
         IN CommandEachAllErrors(Tail(targets),
               IF r.res # "Ok"
               THEN [r EXCEPT !.tw = Append(r.tw, CmdStatus(path, r.res))]
               ELSE r,
               cmd_req)

\* handle_command_path reporting unsupported-command of a wildcard traversal too
handle_command_path_allerrors(st, cmd_req) ==
    LET nw == not_wildcard(cmd_req.path)
    IN IF nw.ok
       THEN LET cluster == get_cluster(st.node, nw.val[1], nw.val[2])
                r == IF cluster.ok THEN handle_command(st, cluster.val, cmd_req)
                     ELSE [st EXCEPT !.res = IMStatusOf(cluster.err)]
            IN IF r.res # "Ok"
               THEN [r EXCEPT !.tw = Append(r.tw, CmdStatus(cmd_req.path, r.res))]
               ELSE r
       ELSE CommandEachAllErrors(ClusterTargets(st.node, cmd_req.path), st, cmd_req)

\* handle_command_path dropping the error of a concrete path
handle_command_path_silent(st, cmd_req) ==
    LET nw == not_wildcard(cmd_req.path)
    IN IF nw.ok
       THEN LET cluster == get_cluster(st.node, nw.val[1], nw.val[2])
            IN IF cluster.ok THEN handle_command(st, cluster.val, cmd_req)
               ELSE [st EXCEPT !.res = IMStatusOf(cluster.err)]
       ELSE CommandEach(ClusterTargets(st.node, cmd_req.path), st, cmd_req)

RECURSIVE CommandEachKeepPath(_, _, _)
CommandEachKeepPath(targets, st, cmd_req) ==
    IF targets = <<>> THEN st
    ELSE LET t == Head(targets)
             r == handle_command(st, t, cmd_req)
         IN CommandEachKeepPath(Tail(targets),
               IF r.res # "Ok" /\ r.res # "UnsupportedCommand"
               THEN [r EXCEPT !.tw = Append(r.tw, CmdStatus(cmd_req.path, r.res))]
               ELSE r,
               cmd_req)

\* handle_command_path whose wildcard closure leaves cmd_req.cmd.path as received
handle_command_path_keeppath(st, cmd_req) ==
    LET nw == not_wildcard(cmd_req.path)
    IN IF nw.ok
       THEN LET cluster == get_cluster(st.node, nw.val[1], nw.val[2])
                r == IF cluster.ok THEN handle_command(st, cluster.val, cmd_req)
                     ELSE [st EXCEPT !.res = IMStatusOf(cluster.err)]
            IN IF r.res # "Ok"
               THEN [r EXCEPT !.tw = Append(r.tw, CmdStatus(cmd_req.path, r.res))]
               ELSE r
       ELSE CommandEachKeepPath(ClusterTargets(st.node, cmd_req.path), st, cmd_req)

\* DataModel::handle_command_path
handle_command_path(st, cmd_req) ==
    LET nw == not_wildcard(cmd_req.path)
    IN IF nw.ok
       THEN LET cluster == get_cluster(st.node, nw.val[1], nw.val[2])
                r == IF cluster.ok THEN handle_command(st, cluster.val, cmd_req)
                     ELSE [st EXCEPT !.res = IMStatusOf(cluster.err)]
            IN IF r.res # "Ok"
               THEN [r EXCEPT !.tw = Append(r.tw, CmdStatus(cmd_req.path, r.res))]
               ELSE r
       ELSE CommandEach(ClusterTargets(st.node, cmd_req.path), st, cmd_req)

RECURSIVE InvokePathsFrom(_, _, _, _, _)
InvokePathsFrom(paths, st, data, has_fabric, i) ==
    IF i > Len(paths) THEN st
    ELSE InvokePathsFrom(paths,
            Produced(st, handle_command_path(st, [path |-> paths[i], data |-> data,
                                                  has_fabric |-> has_fabric]), i),
            data, has_fabric, i + 1)

\* the invoke request handler's loop over the commands of the request, each
\* handed to consume_invoke_cmd
InvokePaths(paths, st, data, has_fabric) ==
    InvokePathsFrom(paths, st, data, has_fabric, 1)

(***************************************************************************)
(* Data model: request actions                                             *)
(***************************************************************************)
\* the writer handed to a request handler is empty, nothing has been called yet
Fresh(n) == [node |-> n, tw |-> <<>>, calls |-> <<>>, complete |-> FALSE,
             res |-> "Ok", origin |-> <<>>]

Request(kind, paths, data, has_fabric) ==
    [kind |-> kind, paths |-> paths, data |-> data, has_fabric |-> has_fabric]

NoRequest == Request("none", <<>>, "NoParams", FALSE)

Handled(st) ==
    /\ node' = st.node
    /\ tw' = st.tw
    /\ calls' = st.calls
    /\ complete' = st.complete
    /\ origin' = st.origin

\* InteractionConsumer::consume_read_attr
ConsumeReadAttr(paths) ==
    /\ req = NoRequest
    /\ req' = Request("read", paths, "NoParams", FALSE)
    /\ Handled(ReadPaths(paths, Fresh(node)))
    /\ UNCHANGED <<certVars, lockVars, caseVars,
                   sessVars, codecVars, im_result, miscVars>>

\* InteractionConsumer::consume_write_attr
ConsumeWriteAttr(paths, data) ==
    /\ req = NoRequest
    /\ \A ei \in 1..Len(node.endpoints) :
         \A k \in 1..Len(node.endpoints[ei].clusters) :
            node.endpoints[ei].clusters[k].dataver + Len(paths) <= MaxDataVer
    /\ req' = Request("write", paths, data, FALSE)
    /\ Handled(WritePaths(paths, Fresh(node), data))
    /\ UNCHANGED <<certVars, lockVars, caseVars,
                   sessVars, codecVars, im_result, miscVars>>

\* InteractionConsumer::consume_invoke_cmd for each command of an invoke request
ConsumeInvokeCmd(paths, data, has_fabric) ==
    /\ req = NoRequest
    /\ req' = Request("invoke", paths, data, has_fabric)
    /\ Handled(InvokePaths(paths, Fresh(node), data, has_fabric))
    /\ UNCHANGED <<certVars, lockVars, caseVars,
                   sessVars, codecVars, im_result, miscVars>>

\* The response has been sent: the transaction and its writer are gone.
ResponseSent ==
    /\ req # NoRequest
    /\ req' = NoRequest
    /\ tw' = <<>>
    /\ calls' = <<>>
    /\ complete' = FALSE
    /\ origin' = <<>>
    /\ UNCHANGED node
    /\ UNCHANGED <<certVars, lockVars, caseVars,
                   sessVars, codecVars, im_result, miscVars>>

\* DataModel::new
DMInitVars ==
    /\ node \in Nodes
    /\ req = NoRequest
    /\ tw = <<>>
    /\ calls = <<>>
    /\ complete = FALSE
    /\ origin = <<>>

DMInit == CertInitVars /\ DMInitVars /\ LockIdle /\ CaseIdle /\ RestIdle

DMNext ==
    \/ \E paths \in PathLists : ConsumeReadAttr(paths)
    \/ \E paths \in PathLists, data \in AttrDataTypes : ConsumeWriteAttr(paths, data)
    \/ \E paths \in PathLists, data \in CmdDatas, has_fabric \in BOOLEAN :
          ConsumeInvokeCmd(paths, data, has_fabric)
    \/ ResponseSent

DMSpec == DMInit /\ [][DMNext]_vars

(***************************************************************************)
(* Requests served by parallel threads on the shared Node                  *)
(***************************************************************************)
\* The paths of the requests the threads serve: attribute or command 0 of the
\* echo cluster (Att1, EchoReq) and of the general-commissioning cluster
\* (BreadCrumb, ArmFailSafe) on endpoint 0.
ThreadPaths == { GenericPath(0, ECHO_CLUSTER_ID, 0),
                 GenericPath(0, CLUSTER_GENERAL_COMMISSIONING_ID, 0) }

ThreadPathLists == UNION { [1..n -> ThreadPaths] : n \in 1..MaxPaths }

\* the handler state of thread t at its next step: the shared node, its own writer
ThreadSt(t) == [Fresh(node) EXCEPT !.tw = th[t].tw]

LockFree == lock.readers = {} /\ lock.writer = NoThread

\* consume_read_attr up to self.node.read(): blocks while a writer holds the lock
ReadLock(t, paths) ==
    /\ th[t].pc = "idle"
    /\ lock.writer = NoThread
    /\ lock' = [lock EXCEPT !.readers = @ \cup {t}]
    /\ th' = [th EXCEPT ![t] = [pc |-> "run", kind |-> "read", paths |-> paths,
                                data |-> "NoParams", i |-> 1, tw |-> <<>>,
                                seen |-> node]]
    /\ UNCHANGED <<caseVars, certVars, dmVars, sessVars, codecVars, im_result, miscVars>>

\* one iteration of the loop of consume_read_attr
ReadPathStep(t) ==
    /\ th[t].pc = "run" /\ th[t].kind = "read"
    /\ th[t].i <= Len(th[t].paths)
    /\ LET r == handle_read_attr_path(ThreadSt(t), th[t].paths[th[t].i])
       IN th' = [th EXCEPT ![t].tw = r.tw, ![t].i = @ + 1, ![t].seen = node]
    /\ UNCHANGED <<caseVars, certVars, dmVars, lock,
                   sessVars, codecVars, im_result, miscVars>>

\* consume_read_attr returns: the read guard is dropped
ReadUnlock(t) ==
    /\ th[t].pc = "run" /\ th[t].kind = "read"
    /\ th[t].i > Len(th[t].paths)
    /\ lock' = [lock EXCEPT !.readers = @ \ {t}]
    /\ th' = [th EXCEPT ![t].pc = "done"]
    /\ UNCHANGED <<caseVars, certVars, dmVars, sessVars, codecVars, im_result, miscVars>>

\* consume_write_attr up to self.node.write(): blocks while anyone holds the lock
WriteLock(t, paths) ==
    /\ th[t].pc = "idle"
    /\ LockFree
    /\ \A ei \in 1..Len(node.endpoints) :
         \A k \in 1..Len(node.endpoints[ei].clusters) :
            node.endpoints[ei].clusters[k].dataver + Len(paths) <= MaxDataVer
    /\ lock' = [lock EXCEPT !.writer = t]
    /\ th' = [th EXCEPT ![t] = [pc |-> "run", kind |-> "write", paths |-> paths,
                                data |-> "NoParams", i |-> 1, tw |-> <<>>,
                                seen |-> node]]
    /\ UNCHANGED <<caseVars, certVars, dmVars, sessVars, codecVars, im_result, miscVars>>

\* one iteration of the loop of consume_write_attr
WritePathStep(t) ==
    /\ th[t].pc = "run" /\ th[t].kind = "write"
    /\ th[t].i <= Len(th[t].paths)
    /\ LET r == handle_write_attr_path(ThreadSt(t),
                   [path |-> th[t].paths[th[t].i], data |-> [kind |-> "Tlv", value |-> 1]])
       IN /\ node' = r.node
          /\ th' = [th EXCEPT ![t].tw = r.tw, ![t].i = @ + 1, ![t].seen = r.node]
    /\ UNCHANGED <<caseVars, certVars, req, tw, calls, complete, origin, lock,
                   sessVars, codecVars, im_result, miscVars>>

\* consume_write_attr returns: the write guard is dropped
WriteUnlock(t) ==
    /\ th[t].pc = "run" /\ th[t].kind = "write"
    /\ th[t].i > Len(th[t].paths)
    /\ lock' = [lock EXCEPT !.writer = NoThread]
    /\ th' = [th EXCEPT ![t].pc = "done"]
    /\ UNCHANGED <<caseVars, certVars, dmVars, sessVars, codecVars, im_result, miscVars>>

\* an invoke request arrives: its commands are handed to consume_invoke_cmd one
\* by one
InvokeBegin(t, paths) ==
    /\ th[t].pc = "idle"
    /\ th' = [th EXCEPT ![t] = [pc |-> "wait", kind |-> "invoke", paths |-> paths,
                                data |-> "ArmParams", i |-> 1, tw |-> <<>>,
                                seen |-> node]]
    /\ UNCHANGED <<caseVars, certVars, dmVars, lock,
                   sessVars, codecVars, im_result, miscVars>>

\* consume_invoke_cmd up to self.node.write()
InvokeCmdLock(t) ==
    /\ th[t].pc = "wait" /\ th[t].kind = "invoke"
    /\ th[t].i <= Len(th[t].paths)
    /\ LockFree
    /\ lock' = [lock EXCEPT !.writer = t]
    /\ th' = [th EXCEPT ![t].pc = "run"]
    /\ UNCHANGED <<caseVars, certVars, dmVars, sessVars, codecVars, im_result, miscVars>>

\* consume_invoke_cmd from handle_command_path to its return, where the write
\* guard is dropped
InvokeCmdRun(t) ==
    /\ th[t].pc = "run" /\ th[t].kind = "invoke"
    /\ LET r == handle_command_path(ThreadSt(t),
                   [path |-> th[t].paths[th[t].i], data |-> th[t].data,
                    has_fabric |-> TRUE])
       IN /\ node' = r.node
          /\ th' = [th EXCEPT ![t].tw = r.tw, ![t].i = @ + 1, ![t].seen = r.node,
                              ![t].pc = "wait"]
    /\ lock' = [lock EXCEPT !.writer = NoThread]
    /\ UNCHANGED <<caseVars, certVars, req, tw, calls, complete, origin,
                   sessVars, codecVars, im_result, miscVars>>

\* every command of the invoke request has been handled
InvokeEnd(t) ==
    /\ th[t].pc = "wait" /\ th[t].kind = "invoke"
    /\ th[t].i > Len(th[t].paths)
    /\ th' = [th EXCEPT ![t].pc = "done"]
    /\ UNCHANGED <<caseVars, certVars, dmVars, lock,
                   sessVars, codecVars, im_result, miscVars>>

\* the node of the threads: the root endpoint alone
LockInit ==
    /\ CertInitVars
    /\ node = [endpoints |-> << RootEndpoint >>]
    /\ req = NoRequest
    /\ tw = <<>>
    /\ calls = <<>>
    /\ complete = FALSE
    /\ origin = <<>>
    /\ LockIdle
    /\ CaseIdle
    /\ RestIdle

LockNext ==
    \E t \in Threads :
        \/ \E paths \in ThreadPathLists : ReadLock(t, paths)
        \/ ReadPathStep(t)
        \/ ReadUnlock(t)
        \/ \E paths \in ThreadPathLists : WriteLock(t, paths)
        \/ WritePathStep(t)
        \/ WriteUnlock(t)
        \/ \E paths \in ThreadPathLists : InvokeBegin(t, paths)
        \/ InvokeCmdLock(t)
        \/ InvokeCmdRun(t)
        \/ InvokeEnd(t)

LockSpec == LockInit /\ [][LockNext]_vars

(***************************************************************************)
(* CASE handshake                                                          *)
(***************************************************************************)
\* An integer element of a received TLV: its encoded width in bytes and value
U8(v) == [width |-> 1, value |-> v]
U16(v) == [width |-> 2, value |-> v]

\* TLVElement::get_u8: a wider element is a type mismatch
get_u8(e) == IF e.width = 1 THEN Ok(e.value) ELSE Err("TLVTypeMismatch")

\* destination ids: 1 is the one of the local fabric, 2 matches no fabric
DestIds == {1, 2}
LocalDestIds == {1}

\* FabricMgr::match_dest_id: the index of the fabric the destination id matches
match_dest_id(initiator_random, dest_id) ==
    IF dest_id \in LocalDestIds THEN Ok(1) ELSE Err("NotFound")

\* Sigma1 as received: the context tags present in its root struct, the
\* initiator session id element (tag 2), the destination id (tag 3) and whether
\* the ephemeral public key (tag 4) is a point of the curve
Sigma1s ==
    [opcode : {"Sigma1"},
     tags : {{1, 2, 3, 4}, {1, 2, 4}},
     initiator_sessid : {U8(1), U8(255), U16(256), U16(300)},
     dest_id : DestIds,
     peer_pub_key : {"valid", "invalid"}]

\* Sigma3 as received; signature tells whether the initiator's signature and
\* certificate chain are good
Sigma3s == [opcode : {"Sigma3"}, signature : {"good", "bad"}]

\* TLVElement::find_tag
find_tag(rx, t) == IF t \in rx.tags THEN Ok(t) ELSE Err("NoTagFound")

\* KeyPair::derive_secret against the peer's ephemeral key
derive_secret(peer_pub_key) ==
    IF peer_pub_key = "valid" THEN Ok("secret") ELSE Err("Crypto")

\* What the handler cannot control while it handles Sigma1: whether the matched
\* fabric is still there at get_fabric, which crypto step fails (if any), and
\* how many of the six TLV writes of Sigma2 fit the tx buffer.
Sigma2Writes == 6

CaseEnvs ==
    [fabric_gone : BOOLEAN,
     fail : {"none", "KeyPair_new", "get_sigma2_signature", "get_sigma2_encryption"},
     room : 0..Sigma2Writes]

\* the writes of the Sigma2 body, in order (case.rs 141-150)
Sigma2Items ==
    << "start_struct", "our_random", "child_local_sess_id", "our_pub_key",
       "encrypted", "end_container" >>

\* common::create_sc_status_report
StatusReport(code) == [kind |-> "StatusReport", code |-> code]

\* CaseSession::new followed by tt_hash.update(buf): the transcript is the
\* sequence of the buffers it was fed
CaseSession(initiator_sessid, fed) ==
    [state |-> "Sigma1Rx", initiator_sessid |-> initiator_sessid, tt_hash |-> fed]

\* what a handler leaves behind: its result, the reply, the exchange
Handling(result, tx, ex) == [result |-> result, tx |-> tx, exchange |-> ex]

\* Exchange::close
close(ex) == [ex EXCEPT !.closed = TRUE]

\* Exchange::set_exchange_data
set_exchange_data(ex, data) == [ex EXCEPT !.data = data]

\* handle_casesigma1 that replies NoSharedTrustRoots without closing the exchange
handle_casesigma1_noclose(rx, env, ex) ==
    LET sessid == get_u8(rx.initiator_sessid)
        local_fabric == match_dest_id("initiator_random", rx.dest_id)
    IN IF \E t \in 1..4 : ~find_tag(rx, t).ok THEN Handling("NoTagFound", <<>>, ex)
       ELSE IF ~sessid.ok THEN Handling(sessid.err, <<>>, ex)
       ELSE IF ~local_fabric.ok
       THEN Handling("Ok", << StatusReport("NoSharedTrustRoots") >>, ex)
       ELSE LET case_session == CaseSession(sessid.val, << rx >>)
            IN IF env.fail = "KeyPair_new" THEN Handling("Crypto", <<>>, ex)
               ELSE IF ~derive_secret(rx.peer_pub_key).ok
               THEN Handling("Crypto", <<>>, ex)
               ELSE IF env.fabric_gone
               THEN Handling("Ok", << StatusReport("NoSharedTrustRoots") >>, ex)
               ELSE IF env.fail = "get_sigma2_signature"
               THEN Handling("Crypto", <<>>, ex)
               ELSE IF env.fail = "get_sigma2_encryption"
               THEN Handling("NoSpace", <<>>, ex)
               ELSE IF env.room < Sigma2Writes
               THEN Handling("NoSpace", SubSeq(Sigma2Items, 1, env.room), ex)
               ELSE Handling("Ok", Sigma2Items, set_exchange_data(ex, case_session))

\* handle_casesigma1 that attaches the CaseSession before it writes Sigma2
handle_casesigma1_earlyattach(rx, env, ex) ==
    LET sessid == get_u8(rx.initiator_sessid)
        local_fabric == match_dest_id("initiator_random", rx.dest_id)
    IN IF \E t \in 1..4 : ~find_tag(rx, t).ok THEN Handling("NoTagFound", <<>>, ex)
       ELSE IF ~sessid.ok THEN Handling(sessid.err, <<>>, ex)
       ELSE IF ~local_fabric.ok
       THEN Handling("Ok", << StatusReport("NoSharedTrustRoots") >>, close(ex))
       ELSE LET case_session == CaseSession(sessid.val, << rx >>)
            IN IF env.fail = "KeyPair_new" THEN Handling("Crypto", <<>>, ex)
               ELSE IF ~derive_secret(rx.peer_pub_key).ok
               THEN Handling("Crypto", <<>>, ex)
               ELSE IF env.fabric_gone
               THEN Handling("Ok", << StatusReport("NoSharedTrustRoots") >>, close(ex))
               ELSE IF env.fail = "get_sigma2_signature"
               THEN Handling("Crypto", <<>>, ex)
               ELSE IF env.fail = "get_sigma2_encryption"
               THEN Handling("NoSpace", <<>>, ex)
               ELSE IF env.room < Sigma2Writes
               THEN Handling("NoSpace", SubSeq(Sigma2Items, 1, env.room),
                             set_exchange_data(ex, case_session))
               ELSE Handling("Ok", Sigma2Items, set_exchange_data(ex, case_session))

\* Case::handle_casesigma1
handle_casesigma1(rx, env, ex) ==
    LET sessid == get_u8(rx.initiator_sessid)
        local_fabric == match_dest_id("initiator_random", rx.dest_id)
    IN IF \E t \in 1..4 : ~find_tag(rx, t).ok THEN Handling("NoTagFound", <<>>, ex)
       ELSE IF ~sessid.ok THEN Handling(sessid.err, <<>>, ex)
       ELSE IF ~local_fabric.ok
       THEN Handling("Ok", << StatusReport("NoSharedTrustRoots") >>, close(ex))
       ELSE LET case_session == CaseSession(sessid.val, << rx >>)
            IN IF env.fail = "KeyPair_new" THEN Handling("Crypto", <<>>, ex)
               ELSE IF ~derive_secret(rx.peer_pub_key).ok
               THEN Handling("Crypto", <<>>, ex)
               ELSE IF env.fabric_gone
               THEN Handling("Ok", << StatusReport("NoSharedTrustRoots") >>, close(ex))
               ELSE IF env.fail = "get_sigma2_signature"
               THEN Handling("Crypto", <<>>, ex)
               ELSE IF env.fail = "get_sigma2_encryption"
               THEN Handling("NoSpace", <<>>, ex)
               ELSE IF env.room < Sigma2Writes
               THEN Handling("NoSpace", SubSeq(Sigma2Items, 1, env.room), ex)
               ELSE Handling("Ok", Sigma2Items, set_exchange_data(ex, case_session))

\* Case::handle_casesigma3
handle_casesigma3(rx, ex) == Handling("Ok", <<>>, ex)

Handshaken(h) ==
    /\ case_result' = h.result
    /\ proto_tx' = h.tx
    /\ exchange' = h.exchange

HandleCaseSigma1(rx, env) ==
    /\ ~exchange.closed
    /\ proto_rx' = rx
    /\ Handshaken(handle_casesigma1(rx, env, exchange))
    /\ UNCHANGED <<sessions, certVars, dmVars, lockVars,
                   sessVars, codecVars, im_result, miscVars>>

HandleCaseSigma3(rx) ==
    /\ ~exchange.closed
    /\ proto_rx' = rx
    /\ Handshaken(handle_casesigma3(rx, exchange))
    /\ UNCHANGED <<sessions, certVars, dmVars, lockVars,
                   sessVars, codecVars, im_result, miscVars>>

\* The closed exchange is gone; the next handshake starts on a new exchange.
NewExchange ==
    /\ exchange.closed
    /\ exchange' = NewExchangeData
    /\ proto_rx' = NoMessage
    /\ proto_tx' = <<>>
    /\ case_result' = "NoResult"
    /\ UNCHANGED <<sessions, certVars, dmVars, lockVars,
                   sessVars, codecVars, im_result, miscVars>>

CaseInit == CertInitVars /\ DMIdle /\ LockIdle /\ CaseIdle /\ RestIdle

CaseNext ==
    \/ \E rx \in Sigma1s, env \in CaseEnvs : HandleCaseSigma1(rx, env)
    \/ \E rx \in Sigma3s : HandleCaseSigma3(rx)
    \/ NewExchange

CaseSpec == CaseInit /\ [][CaseNext]_vars

(***************************************************************************)
(* Sessions and exchanges (src/transport/session.rs, exchange.rs)          *)
(***************************************************************************)
\* SessionMgr.sessions: Vec<Session, 16>
SessionsCapacity == 16

\* Session.exchanges: Vec<Exchange, 4>
ExchangesCapacity == 4

SessionIds == {1, 2}
PeerAddrs == {1, 2}

\* the peers that open sessions: (session id, address)
Peers == { <<1, 1>>, <<2, 2>> }

\* mutation: a vector that grows without limit
push_unbounded(v, item, capacity) == Ok(Append(v, item))

\* heapless::Vec::push: refuses the item when the vector is at capacity
push(v, item, capacity) ==
    IF Len(v) < capacity THEN Ok(Append(v, item)) ELSE Err(item)

\* Iterator::position: the first index the predicate holds at
position(hits) ==
    IF hits = {} THEN None ELSE CHOOSE i \in hits : \A j \in hits : i <= j

\* the keys are carried along and never looked at; they are left out
NewSession(session_id, peer_addr) ==
    [session_id |-> session_id, peer_addr |-> peer_addr, exchanges |-> <<>>]

\* mutation: a full table takes the session in its last slot
SessionMgr_add_evict(ss, session_id, peer_addr) ==
    LET r == push(ss, NewSession(session_id, peer_addr), SessionsCapacity)
    IN  IF r.ok
        THEN [sessions |-> r.val, ret |-> Ok("unit")]
        ELSE [sessions |-> [ss EXCEPT ![Len(ss)] = NewSession(session_id, peer_addr)],
              ret |-> Ok("unit")]

SessionMgr_add(ss, session_id, peer_addr) ==
    LET r == push(ss, NewSession(session_id, peer_addr), SessionsCapacity)
    IN  IF r.ok
        THEN [sessions |-> r.val, ret |-> Ok("unit")]
        ELSE [sessions |-> ss, ret |-> Err("All sessions full")]

\* mutation: the session added last is the one found
SessionMgr_get_latest(ss, session_id, peer_addr) ==
    LET hits == { i \in DOMAIN ss : /\ ss[i].session_id = session_id
                                    /\ ss[i].peer_addr = peer_addr }
    IN  IF hits = {} THEN None ELSE CHOOSE i \in hits : \A j \in hits : j <= i

\* the index of the session returned, or None
SessionMgr_get(ss, session_id, peer_addr) ==
    position({ i \in DOMAIN ss : /\ ss[i].session_id = session_id
                                   /\ ss[i].peer_addr = peer_addr })

Add(session_id, peer_addr) ==
    LET r == SessionMgr_add(sessions, session_id, peer_addr)
    IN  /\ sessions' = r.sessions
        /\ sess_ret' = [op |-> "add", ret |-> r.ret]
        /\ UNCHANGED <<exchange, proto_rx, proto_tx, case_result, session>>
        /\ UNCHANGED <<certVars, dmVars, lockVars, codecVars, im_result, miscVars>>

Get(session_id, peer_addr) ==
    /\ sess_ret' = [op |-> "get", session_id |-> session_id, peer_addr |-> peer_addr,
                    ret |-> SessionMgr_get(sessions, session_id, peer_addr)]
    /\ UNCHANGED <<caseVars, session>>
    /\ UNCHANGED <<certVars, dmVars, lockVars, codecVars, im_result, miscVars>>

\* SessionMgr::new
MgrInit ==
    /\ CertInitVars /\ DMIdle /\ LockIdle /\ CaseIdle /\ RestIdle

MgrNext ==
    \/ \E p \in Peers : Add(p[1], p[2])
    \/ \E session_id \in SessionIds, peer_addr \in PeerAddrs : Get(session_id, peer_addr)

MgrSpec == MgrInit /\ [][MgrNext]_vars

\* exchange ids and acknowledged message counters seen on the wire
ExchangeIds == 1..MaxExchId
AckCtrs == {7}

\* mutation: a new exchange already waits for an acknowledgement
Exchange_new_acked(id, role) == [id |-> id, role |-> role, pending_ack |-> 0]

Exchange_new(id, role) == [id |-> id, role |-> role, pending_ack |-> None]

is_match(x, id, role) == x.id = id /\ x.role = role

ack_pending(x, ack_ctr) == [x EXCEPT !.pending_ack = ack_ctr]

\* mutation: an exchange is created for either role
Session_get_exchange_anyrole(s, id, is_peer_initiator) ==
    LET role == IF is_peer_initiator THEN "Responder" ELSE "Initiator"
        index == position({ i \in DOMAIN s.exchanges :
                              is_match(s.exchanges[i], id, role) })
    IN  IF index # None
        THEN [session |-> s, ret |-> index]
        ELSE LET r == push(s.exchanges, Exchange_new(id, role), ExchangesCapacity)
             IN  IF r.ok
                 THEN [session |-> [s EXCEPT !.exchanges = r.val],
                       ret |-> position({ i \in DOMAIN r.val :
                                            is_match(r.val[i], id, role) })]
                 ELSE [session |-> s, ret |-> None]

\* the session afterwards and the index of the exchange returned, or None
Session_get_exchange(s, id, is_peer_initiator) ==
    LET role == IF is_peer_initiator THEN "Responder" ELSE "Initiator"
        index == position({ i \in DOMAIN s.exchanges :
                              is_match(s.exchanges[i], id, role) })
    IN  IF index # None
        THEN [session |-> s, ret |-> index]
        ELSE IF is_peer_initiator
             THEN LET r == push(s.exchanges, Exchange_new(id, role), ExchangesCapacity)
                  IN  IF r.ok
                      THEN [session |-> [s EXCEPT !.exchanges = r.val],
                            ret |-> position({ i \in DOMAIN r.val :
                                                 is_match(r.val[i], id, role) })]
                      ELSE [session |-> s, ret |-> None]
             ELSE [session |-> s, ret |-> None]

GetExchange(id, is_peer_initiator) ==
    LET r == Session_get_exchange(session, id, is_peer_initiator)
    IN  /\ session' = r.session
        /\ sess_ret' = [op |-> "get_exchange", id |-> id,
                        is_peer_initiator |-> is_peer_initiator, ret |-> r.ret]
        /\ UNCHANGED <<certVars, dmVars, lockVars, caseVars, codecVars, im_result, miscVars>>

\* ack_pending on an exchange that get_exchange handed out
AckPending(i, ack_ctr) ==
    /\ i \in DOMAIN session.exchanges
    /\ session' = [session EXCEPT !.exchanges[i] = ack_pending(@, ack_ctr)]
    /\ sess_ret' = [op |-> "ack_pending"]
    /\ UNCHANGED <<certVars, dmVars, lockVars, caseVars, codecVars, im_result, miscVars>>

\* a session as SessionMgr::add stores it: no exchanges
ExchInit ==
    /\ CertInitVars /\ DMIdle /\ LockIdle /\ CaseIdle /\ CodecIdle /\ ImIdle /\ MiscIdle
    /\ \E p \in Peers : session = NewSession(p[1], p[2])
    /\ sess_ret = NoCall

ExchNext ==
    \/ \E id \in ExchangeIds, is_peer_initiator \in BOOLEAN :
          GetExchange(id, is_peer_initiator)
    \/ \E i \in 1..ExchangesCapacity, ack_ctr \in AckCtrs : AckPending(i, ack_ctr)

ExchSpec == ExchInit /\ [][ExchNext]_vars

\* every message that can arrive does arrive
ExchFairSpec ==
    /\ ExchSpec
    /\ \A id \in ExchangeIds, is_peer_initiator \in BOOLEAN :
          WF_vars(GetExchange(id, is_peer_initiator))

(***************************************************************************)
(* Certificate encodings: Matter TLV in, Matter TLV and DER out            *)
(* (cert/mod.rs, matter_macro_derive/src/lib.rs)                           *)
(***************************************************************************)
\* Option values of the certificate record: <<>> is None, <<v>> is Some(v)
Absent == <<>>
Some(v) == <<v>>

\* TLV elements: a tag (None for the anonymous tag), a type, a number (the
\* value of an integer, the name of a byte string, 1 for true) and, for a
\* container, the sequence of its elements.  Integers are written at the
\* narrowest width that holds them and read at any width that fits the
\* accessor, so an integer element is its value.
Elem(tag, ty, num, items) == [tag |-> tag, ty |-> ty, num |-> num, items |-> items]
UInt(tag, v) == Elem(tag, "uint", v, <<>>)
Bytes(tag, v) == Elem(tag, "bytes", v, <<>>)
Bool(tag, v) == Elem(tag, "bool", IF v THEN 1 ELSE 0, <<>>)
Struct(tag, items) == Elem(tag, "struct", 0, items)
List(tag, items) == Elem(tag, "list", 0, items)
Array(tag, items) == Elem(tag, "array", 0, items)

\* CertTags
SerialNum == 1
SignAlgo == 2
Issuer == 3
NotBefore == 4
NotAfter == 5
Subject == 6
PubKeyAlgo == 7
EcCurveId == 8
EcPubKey == 9
Extensions == 10
Signature == 11

\* DnTags, and one tag that is none of them
NodeId == 17
FirmwareSignId == 18
IcaId == 19
RootCaId == 20
FabricId == 21
NocCat == 22
OtherDn == 16

\* tags of the extension list (#[tlvargs(start = 1, datatype = "list")])
BasicConstTag == 1
KeyUsageTag == 2
ExtKeyUsageTag == 3
SubjKeyIdTag == 4
AuthKeyIdTag == 5
FutureExtTag == 6

\* sequences over S of length at most n
RECURSIVE SeqsUpTo(_, _)
SeqsUpTo(S, n) ==
    IF n = 0 THEN { <<>> }
    ELSE LET shorter == SeqsUpTo(S, n - 1)
         IN  shorter \cup { Append(q, x) : q \in shorter, x \in S }

\* distinguished names as they arrive: context-tagged integers
DnElems == { UInt(NodeId, 1), UInt(NodeId, 2), UInt(NocCat, 1), UInt(OtherDn, 1),
             UInt(FabricId, 1) }
DnLists == SeqsUpTo(DnElems, MaxDn)

\* extended key usage entries: the six mapped ones are 1..6
KeyPurposeIds == {0, 1, 6, 7, 255}
EkuLists == SeqsUpTo(KeyPurposeIds, MaxEku)

BasicConstElems ==
    { Struct(BasicConstTag, <<Bool(1, TRUE)>>),
      Struct(BasicConstTag, <<Bool(1, FALSE)>>),
      Struct(BasicConstTag, <<Bool(1, TRUE), UInt(2, 0)>>) }

EkuElem(l) == Array(ExtKeyUsageTag, [i \in DOMAIN l |-> UInt(None, l[i])])

\* the extensions varied freely, with one extended key usage list
ExtElems ==
    BasicConstElems \cup
    { UInt(KeyUsageTag, 96), EkuElem(<<1, 2>>), Bytes(SubjKeyIdTag, 1),
      Bytes(AuthKeyIdTag, 2), Bytes(FutureExtTag, 3) }

\* the extension list of an operational certificate, as the fixtures have it
NocExts(eku) ==
    << Struct(BasicConstTag, <<Bool(1, FALSE)>>), UInt(KeyUsageTag, 1),
       EkuElem(eku), Bytes(SubjKeyIdTag, 1), Bytes(AuthKeyIdTag, 2) >>

ExtLists ==
    SeqsUpTo(ExtElems, MaxExts) \cup { NocExts(l) : l \in EkuLists }
    \cup { Append(NocExts(<<2, 1>>), Bytes(FutureExtTag, 3)) }

TlvCert(sign_algo, issuer, subject, exts) ==
    Struct(None,
           << Bytes(SerialNum, 4), UInt(SignAlgo, sign_algo), List(Issuer, issuer),
              UInt(NotBefore, 10), UInt(NotAfter, 20), List(Subject, subject),
              UInt(PubKeyAlgo, 1), UInt(EcCurveId, 1), Bytes(EcPubKey, 5),
              List(Extensions, exts), Bytes(Signature, 9) >>)

\* the certificates handed to Cert::new: every issuer with every short
\* subject, and every extension list under either signature algorithm id
TlvCerts ==
    { TlvCert(1, issuer, subject, NocExts(<<2, 1>>)) :
        issuer \in DnLists, subject \in SeqsUpTo(DnElems, 1) }
    \cup { TlvCert(sign_algo, <<UInt(RootCaId, 1)>>, <<UInt(NodeId, 1), UInt(FabricId, 1)>>,
                   exts) : sign_algo \in {1, 2}, exts \in ExtLists }

\* derive(FromTLV), ordered: each field takes the element the iterator
\* stands at when its tag is the field's, and is not found otherwise;
\* elements left over are not looked at.  Yields an Option per field.
RECURSIVE from_tlv_ordered(_, _)
from_tlv_ordered(items, tags) ==
    IF tags = <<>> THEN <<>>
    ELSE IF items # <<>> /\ Head(items).tag = Head(tags)
         THEN <<Some(Head(items))>> \o from_tlv_ordered(Tail(items), Tail(tags))
         ELSE <<Absent>> \o from_tlv_ordered(items, Tail(tags))

\* tlv_not_found of a field that is not an Option
NoTagFound == Err("NoTagFound")

\* mutation: a distinguished name is kept once
RECURSIVE DistNames_from_tlv_dedup(_)
DistNames_from_tlv_dedup(items) ==
    IF items = <<>> THEN <<>>
    ELSE LET rest == DistNames_from_tlv_dedup(Tail(items))
             dn == <<Head(items).tag, Head(items).num>>
         IN  IF \E i \in DOMAIN rest : rest[i] = dn THEN rest ELSE <<dn>> \o rest

\* DistNames::from_tlv: the context-tagged elements, in the order of arrival
RECURSIVE DistNames_from_tlv(_)
DistNames_from_tlv(items) ==
    IF items = <<>> THEN <<>>
    ELSE IF Head(items).tag # None
         THEN << <<Head(items).tag, Head(items).num>> >> \o DistNames_from_tlv(Tail(items))
         ELSE DistNames_from_tlv(Tail(items))

DistNames_to_tlv(dn, tag) == List(tag, [i \in DOMAIN dn |-> UInt(dn[i][1], dn[i][2])])

\* BasicConstraints: derive(FromTLV, ToTLV), start = 1
BasicConstraints_from_tlv(t) ==
    LET f == from_tlv_ordered(t.items, <<1, 2>>)
    IN  IF f[1] = Absent THEN NoTagFound
        ELSE Ok([is_ca |-> f[1][1].num = 1,
                 path |-> IF f[2] = Absent THEN Absent ELSE Some(f[2][1].num)])

BasicConstraints_to_tlv(b, tag) ==
    Struct(tag, <<Bool(1, b.is_ca)>>
                \o (IF b.path = Absent THEN <<>> ELSE <<UInt(2, b.path[1])>>))

\* Extensions: derive(FromTLV, ToTLV), start = 1, datatype = "list"
Extensions_from_tlv(t) ==
    LET f == from_tlv_ordered(t.items, <<BasicConstTag, KeyUsageTag, ExtKeyUsageTag,
                                       SubjKeyIdTag, AuthKeyIdTag, FutureExtTag>>)
        bc == IF f[1] = Absent THEN Ok(Absent)
              ELSE LET r == BasicConstraints_from_tlv(f[1][1])
                   IN  IF r.ok THEN Ok(Some(r.val)) ELSE r
        opt(o) == IF o = Absent THEN Absent ELSE Some(o[1].num)
    IN  IF ~bc.ok THEN bc
        ELSE Ok([basic_const |-> bc.val,
                 key_usage |-> opt(f[2]),
                 ext_key_usage |->
                     IF f[3] = Absent THEN Absent
                     ELSE Some([i \in DOMAIN f[3][1].items |-> f[3][1].items[i].num]),
                 subj_key_id |-> opt(f[4]),
                 auth_key_id |-> opt(f[5]),
                 future_extensions |-> opt(f[6])])

Extensions_to_tlv(e, tag) ==
    List(tag,
         (IF e.basic_const = Absent THEN <<>>
          ELSE <<BasicConstraints_to_tlv(e.basic_const[1], BasicConstTag)>>)
         \o (IF e.key_usage = Absent THEN <<>> ELSE <<UInt(KeyUsageTag, e.key_usage[1])>>)
         \o (IF e.ext_key_usage = Absent THEN <<>>
             ELSE <<EkuElem(e.ext_key_usage[1])>>)
         \o (IF e.subj_key_id = Absent THEN <<>>
             ELSE <<Bytes(SubjKeyIdTag, e.subj_key_id[1])>>)
         \o (IF e.auth_key_id = Absent THEN <<>>
             ELSE <<Bytes(AuthKeyIdTag, e.auth_key_id[1])>>)
         \o (IF e.future_extensions = Absent THEN <<>>
             ELSE <<Bytes(FutureExtTag, e.future_extensions[1])>>))

\* Cert: derive(FromTLV, ToTLV), start = 1; Cert::new
Cert_new(cert_bin) ==
    LET f == from_tlv_ordered(cert_bin.items,
                              <<SerialNum, SignAlgo, Issuer, NotBefore, NotAfter, Subject,
                                PubKeyAlgo, EcCurveId, EcPubKey, Extensions, Signature>>)
    IN  IF \E i \in DOMAIN f : f[i] = Absent THEN NoTagFound
        ELSE LET ext == Extensions_from_tlv(f[Extensions][1])
             IN  IF ~ext.ok THEN ext
                 ELSE Ok([serial_no |-> f[SerialNum][1].num,
                          sign_algo |-> f[SignAlgo][1].num,
                          issuer |-> DistNames_from_tlv(f[Issuer][1].items),
                          not_before |-> f[NotBefore][1].num,
                          not_after |-> f[NotAfter][1].num,
                          subject |-> DistNames_from_tlv(f[Subject][1].items),
                          pubkey_algo |-> f[PubKeyAlgo][1].num,
                          ec_curve_id |-> f[EcCurveId][1].num,
                          pubkey |-> f[EcPubKey][1].num,
                          extensions |-> ext.val,
                          signature |-> f[Signature][1].num])

\* Cert::as_tlv
as_tlv(c) ==
    Struct(None,
           << Bytes(SerialNum, c.serial_no), UInt(SignAlgo, c.sign_algo),
              DistNames_to_tlv(c.issuer, Issuer),
              UInt(NotBefore, c.not_before), UInt(NotAfter, c.not_after),
              DistNames_to_tlv(c.subject, Subject),
              UInt(PubKeyAlgo, c.pubkey_algo), UInt(EcCurveId, c.ec_curve_id),
              Bytes(EcPubKey, c.pubkey),
              Extensions_to_tlv(c.extensions, Extensions),
              Bytes(Signature, c.signature) >>)

\* The DER side: the calls made on the CertConsumer, in order.  A call has
\* the method, the label handed to it and its value (0 where it has none).
W(w, tag, val) == [w |-> w, tag |-> tag, val |-> val]

\* an index past the end of an array: the thread panics
Panic == Err("panic: index out of bounds")

LOOKUP == <<0, 8, 4, 12, 2, 10, 6, 14, 1, 9, 5, 13, 3, 11, 7, 15>>

\* mutation: the nibbles are reversed but not exchanged
reverse_byte_inplace(byte) == LOOKUP[(byte \div 16) + 1] * 16 + LOOKUP[(byte % 16) + 1]

reverse_byte(byte) == LOOKUP[(byte % 16) + 1] * 16 + LOOKUP[(byte \div 16) + 1]

int_to_bitstring(a) == << reverse_byte(a % 256), reverse_byte((a \div 256) % 256) >>

\* the two bytes written, as one number
encode_key_usage(key_usage) ==
    LET key_usage_str == int_to_bitstring(key_usage)
    IN  << W("bitstr", "key usage", key_usage_str[1] * 256 + key_usage_str[2]) >>

\* the table of encode_extended_key_usage: entry 0 is a placeholder; Rust
\* indexes it from 0, so entry t is at t + 1 here
encoding == << <<"", "zeros">>, <<"ServerAuth", "OID_SERVER_AUTH">>,
               <<"ClientAuth", "OID_CLIENT_AUTH">>, <<"CodeSign", "OID_CODE_SIGN">>,
               <<"EmailProtection", "OID_EMAIL_PROT">>, <<"Timestamp", "OID_TIMESTAMP">>,
               <<"OCSPSign", "OID_OCSP_SIGN">> >>

RECURSIVE EkuOids(_)
EkuOids(list) ==
    IF list = <<>> THEN Ok(<<>>)
    ELSE LET t == Head(list)
             rest == EkuOids(Tail(list))
         IN  IF t > 0 /\ t <= Len(encoding)
             THEN IF t + 1 \notin DOMAIN encoding THEN Panic
                  ELSE IF rest.ok
                       THEN Ok(<<W("oid", encoding[t + 1][1], encoding[t + 1][2])>>
                               \o rest.val)
                       ELSE rest
             ELSE rest

encode_extended_key_usage(list) ==
    LET oids == EkuOids(list)
    IN  IF oids.ok
        THEN Ok(<<W("start_seq", "", 0)>> \o oids.val \o <<W("end_seq", "", 0)>>)
        ELSE oids

BasicConstraints_encode(b) ==
    <<W("start_seq", "", 0)>>
    \o (IF b.is_ca THEN <<W("bool", "CA:", TRUE)>> ELSE <<>>)
    \o <<W("end_seq", "", 0)>>

encode_extension_start(tag, critical, oid) ==
    <<W("start_seq", "", 0), W("oid", tag, oid)>>
    \o (IF critical THEN <<W("bool", "critical:", TRUE)>> ELSE <<>>)
    \o <<W("start_compound_ostr", "value:", 0)>>

encode_extension_end == <<W("end_compound_ostr", "", 0), W("end_seq", "", 0)>>

\* mutation: extended key usage is not marked critical
Extensions_encode_ekuplain(e) ==
    LET eku == IF e.ext_key_usage = Absent THEN Ok(<<>>)
               ELSE encode_extended_key_usage(e.ext_key_usage[1])
    IN  IF ~eku.ok THEN eku
        ELSE Ok(
          <<W("start_ctx", "X509v3 extensions:", 3), W("start_seq", "", 0)>>
          \o (IF e.basic_const = Absent THEN <<>>
              ELSE encode_extension_start("X509v3 Basic Constraints", TRUE,
                                          "OID_BASIC_CONSTRAINTS")
                   \o BasicConstraints_encode(e.basic_const[1])
                   \o encode_extension_end)
          \o (IF e.key_usage = Absent THEN <<>>
              ELSE encode_extension_start("X509v3 Key Usage", TRUE, "OID_KEY_USAGE")
                   \o encode_key_usage(e.key_usage[1])
                   \o encode_extension_end)
          \o (IF e.ext_key_usage = Absent THEN <<>>
              ELSE encode_extension_start("X509v3 Extended Key Usage", FALSE,
                                          "OID_EXT_KEY_USAGE")
                   \o eku.val
                   \o encode_extension_end)
          \o (IF e.subj_key_id = Absent THEN <<>>
              ELSE encode_extension_start("Subject Key ID", FALSE,
                                          "OID_SUBJ_KEY_IDENTIFIER")
                   \o <<W("ostr", "", e.subj_key_id[1])>>
                   \o encode_extension_end)
          \o (IF e.auth_key_id = Absent THEN <<>>
              ELSE encode_extension_start("Auth Key ID", FALSE, "OID_AUTH_KEY_ID")
                   \o <<W("start_seq", "", 0), W("ctx", "", e.auth_key_id[1]),
                        W("end_seq", "", 0)>>
                   \o encode_extension_end)
          \o <<W("end_seq", "", 0), W("end_ctx", "", 0)>>)

\* Extensions::encode; future extensions are logged and not written
Extensions_encode(e) ==
    LET eku == IF e.ext_key_usage = Absent THEN Ok(<<>>)
               ELSE encode_extended_key_usage(e.ext_key_usage[1])
    IN  IF ~eku.ok THEN eku
        ELSE Ok(
          <<W("start_ctx", "X509v3 extensions:", 3), W("start_seq", "", 0)>>
          \o (IF e.basic_const = Absent THEN <<>>
              ELSE encode_extension_start("X509v3 Basic Constraints", TRUE,
                                          "OID_BASIC_CONSTRAINTS")
                   \o BasicConstraints_encode(e.basic_const[1])
                   \o encode_extension_end)
          \o (IF e.key_usage = Absent THEN <<>>
              ELSE encode_extension_start("X509v3 Key Usage", TRUE, "OID_KEY_USAGE")
                   \o encode_key_usage(e.key_usage[1])
                   \o encode_extension_end)
          \o (IF e.ext_key_usage = Absent THEN <<>>
              ELSE encode_extension_start("X509v3 Extended Key Usage", TRUE,
                                          "OID_EXT_KEY_USAGE")
                   \o eku.val
                   \o encode_extension_end)
          \o (IF e.subj_key_id = Absent THEN <<>>
              ELSE encode_extension_start("Subject Key ID", FALSE,
                                          "OID_SUBJ_KEY_IDENTIFIER")
                   \o <<W("ostr", "", e.subj_key_id[1])>>
                   \o encode_extension_end)
          \o (IF e.auth_key_id = Absent THEN <<>>
              ELSE encode_extension_start("Auth Key ID", FALSE, "OID_AUTH_KEY_ID")
                   \o <<W("start_seq", "", 0), W("ctx", "", e.auth_key_id[1]),
                        W("end_seq", "", 0)>>
                   \o encode_extension_end)
          \o <<W("end_seq", "", 0), W("end_ctx", "", 0)>>)

\* format!("{:016X}") and format!("{:08X}"): the digits and the value
Hex(digits, value) == <<digits, value>>

encode_u64_dn(value, name, oid) ==
    << W("start_set", "", 0), W("start_seq", "", 0), W("oid", name, oid),
       W("utf8str", "", Hex(16, value)), W("end_seq", "", 0), W("end_set", "", 0) >>

dn_encoding == << <<"Chip Node Id:", "OID_MATTER_NODE_ID">>,
                  <<"Chip Firmware Signing Id:", "OID_MATTER_FW_SIGN_ID">>,
                  <<"Chip ICA Id:", "OID_MATTER_ICA_ID">>,
                  <<"Chip Root CA Id:", "OID_MATTER_ROOT_CA_ID">>,
                  <<"Chip Fabric Id:", "OID_MATTER_FABRIC_ID">> >>

\* the calls made for one distinguished name
\* mutation: a name of an unrecognised kind is written like the others
DnCalls_writeall(id, value) ==
    IF id = NocCat
    THEN << W("start_set", "", 0), W("start_seq", "", 0),
            W("oid", "Chip NOC CAT Id:", "OID_MATTER_NOC_CAT_ID"),
            W("utf8str", "", Hex(8, value)), W("end_seq", "", 0),
            W("end_set", "", 0) >>
    ELSE LET this == IF id \in NodeId..NocCat THEN dn_encoding[id - NodeId + 1]
                     ELSE <<"Unknown:", "OID_UNKNOWN">>
         IN  encode_u64_dn(value, this[1], this[2])

DnCalls(id, value) ==
    IF id \in NodeId..NocCat
    THEN IF id = NocCat
         THEN << W("start_set", "", 0), W("start_seq", "", 0),
                 W("oid", "Chip NOC CAT Id:", "OID_MATTER_NOC_CAT_ID"),
                 W("utf8str", "", Hex(8, value)), W("end_seq", "", 0),
                 W("end_set", "", 0) >>
         ELSE LET this == dn_encoding[id - NodeId + 1]
              IN  encode_u64_dn(value, this[1], this[2])
    ELSE <<>>

RECURSIVE DnCallsFrom(_, _)
DnCallsFrom(dn, i) ==
    IF i > Len(dn) THEN <<>>
    ELSE DnCalls(dn[i][1], dn[i][2]) \o DnCallsFrom(dn, i + 1)

\* DistNames::encode
DistNames_encode(dn, tag) ==
    <<W("start_seq", tag, 0)>> \o DnCallsFrom(dn, 1) \o <<W("end_seq", "", 0)>>

get_sign_algo(algo) == IF algo = ECDSAWithSHA256 THEN Some("ECDSA with SHA256") ELSE Absent

get_pubkey_algo(algo) == IF algo = 1 THEN Some("ECPubKey") ELSE Absent

get_ec_curve_id(algo) == IF algo = 1 THEN Some("Prime256v1") ELSE Absent

\* the calls of Cert::encode up to the extensions
CertBody(c) ==
    << W("start_seq", "", 0),
       W("start_ctx", "Version:", 0), W("integer", "", 2), W("end_ctx", "", 0),
       W("integer", "Serial Num:", c.serial_no),
       W("start_seq", "Signature Algorithm:", 0),
       W("oid", get_sign_algo(c.sign_algo)[1], "OID_ECDSA_WITH_SHA256"),
       W("end_seq", "", 0) >>
    \o DistNames_encode(c.issuer, "Issuer:")
    \o << W("start_seq", "Validity:", 0), W("utctime", "Not Before:", c.not_before),
          W("utctime", "Not After:", c.not_after), W("end_seq", "", 0) >>
    \o DistNames_encode(c.subject, "Subject:")
    \o << W("start_seq", "", 0), W("start_seq", "Public Key Algorithm", 0),
          W("oid", get_pubkey_algo(c.pubkey_algo)[1], "OID_PUB_KEY_ECPUBKEY"),
          W("oid", get_ec_curve_id(c.ec_curve_id)[1], "OID_EC_TYPE_PRIME256V1"),
          W("end_seq", "", 0),
          W("bitstr", "Public-Key:", c.pubkey), W("end_seq", "", 0) >>

\* mutation: the signature is written after the extensions
Cert_encode_withsig(c) ==
    IF get_sign_algo(c.sign_algo) = Absent \/ get_pubkey_algo(c.pubkey_algo) = Absent
       \/ get_ec_curve_id(c.ec_curve_id) = Absent
    THEN Err("Invalid")
    ELSE LET ext == Extensions_encode(c.extensions)
         IN  IF ~ext.ok THEN ext
             ELSE Ok(CertBody(c) \o ext.val
                     \o <<W("bitstr", "Signature:", c.signature), W("end_seq", "", 0)>>)

\* Cert::encode as Cert::as_asn1 runs it on the ASN1Writer
Cert_encode(c) ==
    IF get_sign_algo(c.sign_algo) = Absent \/ get_pubkey_algo(c.pubkey_algo) = Absent
       \/ get_ec_curve_id(c.ec_curve_id) = Absent
    THEN Err("Invalid")
    ELSE LET ext == Extensions_encode(c.extensions)
         IN  IF ~ext.ok THEN ext
             ELSE Ok(CertBody(c) \o ext.val \o <<W("end_seq", "", 0)>>)

\* Cert::new on the bytes handed in
CertNew ==
    /\ cert_out.op = "none"
    /\ cert_out' = [op |-> "new", cert |-> Cert_new(cert_in)]
    /\ UNCHANGED <<cert_in, certVars, dmVars, lockVars, caseVars, sessVars, im_result, miscVars>>

\* Cert::as_tlv on the certificate decoded
AsTlv ==
    /\ cert_out.op = "new"
    /\ cert_out.cert.ok
    /\ cert_out' = [op |-> "as_tlv", cert |-> cert_out.cert, tlv |-> as_tlv(cert_out.cert.val)]
    /\ UNCHANGED <<cert_in, certVars, dmVars, lockVars, caseVars, sessVars, im_result, miscVars>>

\* Cert::as_asn1 on the certificate decoded
AsAsn1 ==
    /\ cert_out.op = "new"
    /\ cert_out.cert.ok
    /\ cert_out' = [op |-> "as_asn1", cert |-> cert_out.cert,
                    der |-> Cert_encode(cert_out.cert.val)]
    /\ UNCHANGED <<cert_in, certVars, dmVars, lockVars, caseVars, sessVars, im_result, miscVars>>

CodecInit ==
    /\ CertInitVars /\ DMIdle /\ LockIdle /\ CaseIdle /\ SessIdle /\ ImIdle /\ MiscIdle
    /\ cert_in \in TlvCerts
    /\ cert_out = [op |-> "none"]

CodecNext == CertNew \/ AsTlv \/ AsAsn1

CodecSpec == CodecInit /\ [][CodecNext]_vars

(***************************************************************************)
(* Interaction Model: the read request handler                             *)
(* (interaction_model/read.rs, data_model/core.rs)                         *)
(***************************************************************************)
\* msg::ReadReq: the fields the handler looks at
ReadReq(attr_requests, fabric_filtered, dataver_filters) ==
    [attr_requests |-> attr_requests, fabric_filtered |-> fabric_filtered,
     dataver_filters |-> dataver_filters]

ReadReqs ==
    { ReadReq(a, f, d) :
        a \in {Absent} \cup { Some(paths) : paths \in PathLists },
        f \in BOOLEAN,
        d \in {Absent, Some("filters")} }

\* the TLVWriter calls of the handler that frame the reply
ReadWrites == 5

\* what the handler meets: the call that fails before anything is written,
\* if any, and how many of the framing calls the transmit buffer has room for
ReadEnvs ==
    { env \in [fail : {"none", "get_writebuf", "get_root_node_struct", "from_tlv"},
               room : 0..ReadWrites] :
        env.fail = "none" \/ env.room = ReadWrites }

\* the framing items of the reply, next to the entries of the paths
Frame(kind) == [kind |-> kind]

NewWriter(room) == [tx |-> <<>>, room |-> room, err |-> FALSE]

\* a framing call on the TLVWriter: NoSpace when the buffer is used up
Put(w, item) ==
    IF w.err THEN w
    ELSE IF w.room > 0
         THEN [w EXCEPT !.tx = Append(@, item), !.room = @ - 1]
         ELSE [w EXCEPT !.err = TRUE]

\* mutation: a fabric-filtered read is refused, a filtered one reports nothing
consume_read_attr_filtering(read_req, n, w) ==
    IF read_req.fabric_filtered THEN [w EXCEPT !.err = TRUE]
    ELSE IF read_req.attr_requests = Absent THEN w
         ELSE LET w1 == Put(w, Frame("StartArray AttributeReports"))
                  rd == ReadPaths(read_req.attr_requests[1], Fresh(n))
              IN  IF w1.err THEN w1
                  ELSE Put([w1 EXCEPT !.tx = @ \o (IF read_req.dataver_filters = Absent
                                                  THEN rd.tw ELSE <<>>)],
                           Frame("EndContainer"))

\* DataModel::consume_read_attr: the two filters are logged and not acted on
consume_read_attr(read_req, n, w) ==
    IF read_req.attr_requests = Absent THEN w
    ELSE LET w1 == Put(w, Frame("StartArray AttributeReports"))
             rd == ReadPaths(read_req.attr_requests[1], Fresh(n))
         IN  IF w1.err THEN w1
             ELSE Put([w1 EXCEPT !.tx = @ \o rd.tw], Frame("EndContainer"))

Replied(w, result, complete_) == [tx |-> w.tx, result |-> result, complete |-> complete_]

\* mutation: the transaction is completed before the reply is written
handle_read_req_earlycomplete(n, read_req, env) ==
    IF env.fail # "none" THEN Replied(NewWriter(0), Err(env.fail), FALSE)
    ELSE LET w1 == Put(NewWriter(env.room), Frame("StartStruct"))
             w2 == consume_read_attr(read_req, n, w1)
             w3 == Put(w2, Frame("SupressResponse true"))
             w4 == Put(w3, Frame("EndContainer"))
         IN  IF w4.err THEN Replied(w4, Err("NoSpace"), TRUE)
             ELSE Replied(w4, Ok("ResponseRequired::Yes"), TRUE)

\* InteractionModel::handle_read_req
handle_read_req(n, read_req, env) ==
    IF env.fail # "none" THEN Replied(NewWriter(0), Err(env.fail), FALSE)
    ELSE LET w1 == Put(NewWriter(env.room), Frame("StartStruct"))
             w2 == consume_read_attr(read_req, n, w1)
             w3 == Put(w2, Frame("SupressResponse true"))
             w4 == Put(w3, Frame("EndContainer"))
         IN  IF w4.err THEN Replied(w4, Err("NoSpace"), FALSE)
             ELSE Replied(w4, Ok("ResponseRequired::Yes"), TRUE)

HandleReadReq(read_req, env) ==
    LET r == handle_read_req(node, read_req, env)
    IN  /\ req = NoRequest
        /\ req' = [kind |-> "read_req", read_req |-> read_req, env |-> env]
        /\ tw' = r.tx
        /\ complete' = r.complete
        /\ im_result' = r.result
        /\ UNCHANGED <<node, calls, origin>>
        /\ UNCHANGED <<certVars, lockVars, caseVars, sessVars, codecVars, miscVars>>

ReadInit ==
    /\ CertInitVars /\ DMInitVars /\ LockIdle /\ CaseIdle /\ RestIdle

ReadNext ==
    \/ \E read_req \in ReadReqs, env \in ReadEnvs : HandleReadReq(read_req, env)
    \/ ResponseSent

ReadSpec == ReadInit /\ [][ReadNext]_vars

(***************************************************************************)
(* derive(ToTLV) and derive(FromTLV): matter_macro_derive/src/lib.rs       *)
(***************************************************************************)
\* The items nested in an attribute, as syn hands them to the macro:
\* `key = literal`, a bare word, a bare literal.
NameValue(key, kind, int, str) ==
    [form |-> "NameValue", key |-> key, kind |-> kind, int |-> int, str |-> str]
Path(key) == [form |-> "Path", key |-> key, kind |-> "none", int |-> 0, str |-> ""]
Lit(kind, int, str) == [form |-> "Lit", key |-> "", kind |-> kind, int |-> int, str |-> str]

\* an attribute #[path(nested, ...)]
Attr(path, nested) == [path |-> path, nested |-> nested]

\* impl Default for TlvArgs
TlvArgsDefault == [start |-> 0, datatype |-> "struct", unordered |-> FALSE, lifetime |-> "'_"]

\* the loop over the nested items of #[tlvargs(...)]
RECURSIVE parse_nested(_, _)
parse_nested(nested, tlvargs) ==
    IF nested = <<>> THEN tlvargs
    ELSE LET a == Head(nested)
             next ==
                 IF a.form # "NameValue" THEN tlvargs
                 ELSE IF a.key = "start"
                      THEN IF a.kind = "Int" THEN [tlvargs EXCEPT !.start = a.int]
                           ELSE tlvargs
                 ELSE IF a.key = "lifetime"
                      THEN IF a.kind = "Str" THEN [tlvargs EXCEPT !.lifetime = a.str]
                           ELSE tlvargs
                 ELSE IF a.key = "datatype"
                      THEN IF a.kind = "Str" THEN [tlvargs EXCEPT !.datatype = a.str]
                           ELSE tlvargs
                 ELSE IF a.key = "unordered"
                      THEN [tlvargs EXCEPT !.unordered = TRUE]
                 ELSE tlvargs
         IN  parse_nested(Tail(nested), next)

parse_tlvargs(ast) ==
    IF Len(ast.attrs) > 0 /\ ast.attrs[1].path = "tlvargs"
    THEN parse_nested(ast.attrs[1].nested, TlvArgsDefault)
    ELSE TlvArgsDefault

parse_tag_val(field) ==
    IF Len(field.attrs) > 0 /\ field.attrs[1].path = "tagval"
    THEN LET nested == field.attrs[1].nested
             ints == { i \in DOMAIN nested :
                         nested[i].form = "Lit" /\ nested[i].kind = "Int" }
         IN  IF ints = {} THEN None
             ELSE nested[CHOOSE i \in ints : \A j \in ints : i <= j].int
    ELSE None

\* mutation: a field with a tagval still uses up a number of the sequence
RECURSIVE field_tags_consuming(_, _)
field_tags_consuming(fields, tag_start) ==
    IF fields = <<>> THEN <<>>
    ELSE LET a == parse_tag_val(Head(fields))
         IN  << IF a # None THEN a ELSE tag_start >>
             \o field_tags_consuming(Tail(fields), tag_start + 1)

\* the loop over fields.named of both macros: the tag of every field
RECURSIVE field_tags(_, _)
field_tags(fields, tag_start) ==
    IF fields = <<>> THEN <<>>
    ELSE LET a == parse_tag_val(Head(fields))
         IN  IF a # None
             THEN <<a>> \o field_tags(Tail(fields), tag_start)
             ELSE <<tag_start>> \o field_tags(Tail(fields), tag_start + 1)

\* what derive(ToTLV) generates: the container it opens and the tag of each field
derive_totlv(ast) ==
    LET tlvargs == parse_tlvargs(ast)
    IN  [datatype |-> tlvargs.datatype,
         tags |-> field_tags(ast.fields, tlvargs.start)]

\* to_tlv of one field: a u8 writes its value, an Option writes nothing when None
field_to_tlv(v, tag) == IF v = Absent THEN <<>> ELSE <<UInt(tag, v[1])>>

\* the generated to_tlv: start_<datatype>, every field in turn, end_container
to_tlv(enc, self, tag_type) ==
    Elem(tag_type, enc.datatype, 0,
         Concat([i \in DOMAIN self |-> field_to_tlv(self[i], enc.tags[i])]))

\* what derive(FromTLV) generates: which of the two decoders, and for every
\* field its tag and the first segment of its type
derive_fromtlv(ast) ==
    LET tlvargs == parse_tlvargs(ast)
    IN  [unordered |-> tlvargs.unordered,
         datatype |-> tlvargs.datatype,
         tags |-> field_tags(ast.fields, tlvargs.start),
         types |-> [i \in DOMAIN ast.fields |-> ast.fields[i].ty]]

\* tlv_not_found: an Option is None, any other type fails
tlv_not_found(ty) == IF ty = "Option" THEN Ok(Absent) ELSE NoTagFound

\* TLVElement::find_tag on the children of a container: the first with the tag
find_ctx_tag(items, tag) ==
    LET hits == { i \in DOMAIN items : items[i].tag = tag }
    IN  IF hits = {} THEN NoTagFound
        ELSE Ok(items[CHOOSE i \in hits : \A j \in hits : i <= j])

\* the generated from_tlv, ordered (default) or unordered
from_tlv(dec, t) ==
    LET n == Len(dec.tags)
        found ==
            IF dec.unordered
            THEN [i \in 1..n |->
                    LET s == find_ctx_tag(t.items, dec.tags[i])
                    IN  IF s.ok THEN Some(s.val) ELSE Absent]
            ELSE from_tlv_ordered(t.items, dec.tags)
        field(i) == IF found[i] # Absent THEN Ok(Some(found[i][1].num))
                    ELSE tlv_not_found(dec.types[i])
        errs == { i \in 1..n : ~field(i).ok }
    IN  IF ~dec.unordered /\ t.ty # dec.datatype THEN Err("TLVTypeMismatch")
        ELSE IF errs # {} THEN field(CHOOSE i \in errs : \A j \in errs : i <= j)
        ELSE Ok([i \in 1..n |-> field(i).val])

\* ---- the structs the macros are applied to ----
\* #[tlvargs(lifetime = "'a", start = 1, datatype = "list", unordered)], the
\* example of the doc comment of derive(FromTLV)
DocExample ==
    Attr("tlvargs", << NameValue("lifetime", "Str", 0, "'a"),
                       NameValue("start", "Int", 1, ""),
                       NameValue("datatype", "Str", 0, "list"),
                       Path("unordered") >>)

StructAttrs ==
    { <<>>,
      << Attr("tlvargs", << NameValue("start", "Int", 1, "") >>) >>,
      << Attr("tlvargs", << NameValue("start", "Int", 1, ""),
                            NameValue("datatype", "Str", 0, "list") >>) >>,
      << DocExample >>,
      << Attr("tlvargs", << NameValue("start", "Int", 2, ""),
                            NameValue("unordered", "Bool", 1, "") >>) >>,
      << Attr("doc", <<>>), Attr("tlvargs", << NameValue("start", "Int", 1, "") >>) >> }

Fields ==
    { [attrs |-> a, ty |-> ty] :
        a \in { <<>>, << Attr("tagval", << Lit("Int", 7, "") >>) >>,
                << Attr("tagval", << Lit("Int", 1, "") >>) >> },
        ty \in {"u8", "Option"} }

Asts == { [attrs |-> a, fields |-> f] :
            a \in StructAttrs, f \in SeqsUpTo(Fields, MaxFields) \ {<<>>} }

\* the values of a struct: a u8 field holds a number, an Option may hold none
FieldValues(ty) == IF ty = "Option" THEN {Absent, Some(3)} ELSE {Some(3), Some(4)}

Selves(ast) ==
    { v \in [DOMAIN ast.fields -> {Absent, Some(3), Some(4)}] :
        \A i \in DOMAIN ast.fields : v[i] \in FieldValues(ast.fields[i].ty) }

\* the element `t` with its children in the order `q` of their fields
Permuted(enc, self, tag_type, q) ==
    Elem(tag_type, enc.datatype, 0,
         Concat([i \in DOMAIN q |-> field_to_tlv(self[q[i]], enc.tags[q[i]])]))

\* derive(ToTLV) is expanded and the value is written
ToTLV ==
    /\ derived.op = "none"
    /\ LET enc == derive_totlv(derived.ast)
       IN  derived' = [derived EXCEPT !.op = "to_tlv", !.enc = enc,
                                      !.tlv = to_tlv(enc, derived.self, None)]
    /\ UNCHANGED <<certVars, dmVars, lockVars, caseVars, sessVars, codecVars,
                   im_result, keybits, fabmgr>>

\* derive(FromTLV) is expanded and an element holding the written fields, in
\* some order, is decoded
FromTLV ==
    /\ derived.op = "to_tlv"
    /\ LET dec == derive_fromtlv(derived.ast)
           t == Permuted(derived.enc, derived.self, None, derived.order)
       IN  derived' = [derived EXCEPT !.op = "from_tlv", !.dec = dec,
                                      !.t = t, !.ret = from_tlv(dec, t)]
    /\ UNCHANGED <<certVars, dmVars, lockVars, caseVars, sessVars, codecVars,
                   im_result, keybits, fabmgr>>

DeriveInit ==
    /\ CertInitVars /\ DMIdle /\ LockIdle /\ CaseIdle /\ SessIdle /\ CodecIdle /\ ImIdle
    /\ keybits = NoCall
    /\ fabmgr = NoCall
    /\ \E ast \in Asts : \E self \in Selves(ast) :
         \E q \in Permutations(1..Len(ast.fields)) :
            derived = [op |-> "none", ast |-> ast, self |-> self, order |-> q,
                       enc |-> NoCall, tlv |-> NoCall, dec |-> NoCall,
                       t |-> NoCall, ret |-> NoCall]

DeriveNext == ToTLV \/ FromTLV

DeriveSpec == DeriveInit /\ [][DeriveNext]_vars

(***************************************************************************)
(* The fabric manager's lock while Sigma1 is handled: case.rs, 77-151      *)
(***************************************************************************)
\* mutation: the guard is dropped after signing and the fabric fetched again
\* for the encryption
Sigma1Calls_refetch ==
    << "match_dest_id", "get_fabric", "get_sigma2_signature", "drop_fabric",
       "get_sigma2_key", "get_fabric", "get_sigma2_encryption", "drop_fabric",
       "put_sigma2" >>

\* The calls of handle_casesigma1 that touch the fabric manager or use the
\* fabric, in program order; `fabric` goes out of scope at the end of the
\* block that computes `encrypted`.
Sigma1Calls ==
    << "match_dest_id", "get_fabric", "get_sigma2_signature", "get_sigma2_key",
       "get_sigma2_encryption", "drop_fabric", "put_sigma2" >>

\* the call the handler is at
AtCall(c) ==
    /\ fabmgr.result = "Running"
    /\ fabmgr.pc \in DOMAIN Sigma1Calls
    /\ Sigma1Calls[fabmgr.pc] = c

FabUnchanged ==
    UNCHANGED <<certVars, dmVars, lockVars, caseVars, sessVars, codecVars,
                im_result, derived, keybits>>

\* the handler returns: a guard it holds is dropped with it
Return(result) ==
    [fabmgr EXCEPT !.result = result,
                   !.guard = FALSE,
                   !.readers = IF fabmgr.guard THEN @ - 1 ELSE @]

\* fabric_mgr.match_dest_id: reads the table under the lock and lets go of it
MatchDestId ==
    /\ AtCall("match_dest_id")
    /\ ~fabmgr.writer
    /\ fabmgr' = IF fabmgr.fabric = 0 THEN Return("NoSharedTrustRoots")
                 ELSE [fabmgr EXCEPT !.pc = @ + 1]
    /\ FabUnchanged

\* fabric_mgr.get_fabric: a read guard on the table, pointing at the fabric
GetFabric ==
    /\ AtCall("get_fabric")
    /\ ~fabmgr.writer
    /\ fabmgr' = IF fabmgr.fabric = 0 THEN Return("NoSharedTrustRoots")
                 ELSE [fabmgr EXCEPT !.pc = @ + 1, !.guard = TRUE, !.readers = @ + 1,
                                     !.fetched = IF @ = None THEN fabmgr.fabric ELSE @]
    /\ FabUnchanged

\* Case::get_sigma2_signature(&fabric, ..)?
GetSigma2Signature(fails) ==
    /\ AtCall("get_sigma2_signature")
    /\ fabmgr' = IF fails THEN Return("Err")
                 ELSE [fabmgr EXCEPT !.pc = @ + 1, !.signed = fabmgr.fabric]
    /\ FabUnchanged

\* Case::get_sigma2_key(..)?
GetSigma2Key(fails) ==
    /\ AtCall("get_sigma2_key")
    /\ fabmgr' = IF fails THEN Return("Err") ELSE [fabmgr EXCEPT !.pc = @ + 1]
    /\ FabUnchanged

\* Case::get_sigma2_encryption(&fabric, ..)?
GetSigma2Encryption(fails) ==
    /\ AtCall("get_sigma2_encryption")
    /\ fabmgr' = IF fails THEN Return("Err")
                 ELSE [fabmgr EXCEPT !.pc = @ + 1, !.encrypted = fabmgr.fabric]
    /\ FabUnchanged

\* the end of the scope of `fabric`
DropFabric ==
    /\ AtCall("drop_fabric")
    /\ fabmgr' = [fabmgr EXCEPT !.pc = @ + 1, !.guard = FALSE, !.readers = @ - 1]
    /\ FabUnchanged

\* the Sigma2 body is written and the handler returns Ok
PutSigma2 ==
    /\ AtCall("put_sigma2")
    /\ fabmgr' = Return("Ok")
    /\ FabUnchanged

\* another thread takes the write lock and removes or replaces the fabric
UpdateFabric(remove) ==
    /\ ~fabmgr.writer
    /\ fabmgr.readers = 0
    /\ fabmgr.version < MaxFabricVer
    /\ fabmgr' = [fabmgr EXCEPT !.writer = TRUE,
                                !.version = @ + 1,
                                !.fabric = IF remove THEN 0 ELSE fabmgr.version + 1]
    /\ FabUnchanged

\* and lets go of it
UpdateDone ==
    /\ fabmgr.writer
    /\ fabmgr' = [fabmgr EXCEPT !.writer = FALSE]
    /\ FabUnchanged

\* a Sigma1 arrives while the table holds a fabric (1) or none (0)
FabInit ==
    /\ CertInitVars /\ DMIdle /\ LockIdle /\ CaseIdle /\ SessIdle /\ CodecIdle /\ ImIdle
    /\ derived = NoCall
    /\ keybits = NoCall
    /\ \E f \in {0, 1} :
         fabmgr = [fabric |-> f, version |-> 1, readers |-> 0, writer |-> FALSE,
                   pc |-> 1, result |-> "Running", guard |-> FALSE,
                   fetched |-> None, signed |-> None, encrypted |-> None]

FabNext ==
    \/ MatchDestId
    \/ GetFabric
    \/ \E fails \in BOOLEAN : GetSigma2Signature(fails)
    \/ \E fails \in BOOLEAN : GetSigma2Key(fails)
    \/ \E fails \in BOOLEAN : GetSigma2Encryption(fails)
    \/ DropFabric
    \/ PutSigma2
    \/ \E remove \in BOOLEAN : UpdateFabric(remove)
    \/ UpdateDone

FabSpec == FabInit /\ [][FabNext]_vars

(***************************************************************************)
(* The key-usage bit string: cert/mod.rs, 72-119                           *)
(***************************************************************************)
\* every u16 a certificate can carry as its key usage
KeyUsages == 0..65535

\* encode_key_usage on a bitmask: the buffer filled and the call made
EncodeKeyUsage ==
    /\ keybits.op = "none"
    /\ keybits' = [keybits EXCEPT !.op = "encode_key_usage",
                                  !.key_usage_str = int_to_bitstring(keybits.key_usage),
                                  !.calls = encode_key_usage(keybits.key_usage)]
    /\ UNCHANGED <<certVars, dmVars, lockVars, caseVars, sessVars, codecVars,
                   im_result, derived, fabmgr>>

\* the bitmask is replaced by the next certificate's
NextKeyUsage(key_usage) ==
    /\ keybits.op = "encode_key_usage"
    /\ keybits' = [op |-> "none", key_usage |-> key_usage,
                   key_usage_str |-> <<0, 0>>, calls |-> <<>>]
    /\ UNCHANGED <<certVars, dmVars, lockVars, caseVars, sessVars, codecVars,
                   im_result, derived, fabmgr>>

BitsInit ==
    /\ CertInitVars /\ DMIdle /\ LockIdle /\ CaseIdle /\ SessIdle /\ CodecIdle /\ ImIdle
    /\ derived = NoCall
    /\ fabmgr = NoCall
    /\ \E key_usage \in KeyUsages :
         keybits = [op |-> "none", key_usage |-> key_usage,
                    key_usage_str |-> <<0, 0>>, calls |-> <<>>]

BitsNext ==
    \/ EncodeKeyUsage
    \/ \E key_usage \in {0, 1, 256} : NextKeyUsage(key_usage)

BitsSpec == BitsInit /\ [][BitsNext]_vars

(***************************************************************************)
(* Properties of the certificate chain verifier                            *)
(***************************************************************************)
\* The walk has ended: an add_cert failed, or finalise was called.
ChainEnded == vphase \in {"failed", "final"}

\* C1: verify_chain_start(leaf).add_cert(p1)...add_cert(pn).finalise() returns
\* success if and only if every link's authority-key-id equals its parent's
\* subject-key-id, every link's signature verifies under its parent's public
\* key, and the last certificate is self-signed.
C1_ChainSuccessIff ==
    ChainEnded =>
        ((vphase = "final" /\ vresult = "Ok") <=> (linksOk /\ SelfSigned(vcert)))

C1_Witness ==
    vphase = "final" /\ vresult = "Ok" /\ nlinks >= 2 /\ linksOk /\ SelfSigned(vcert)

\* C2 (as claimed): add_cert returns invalid-auth-key for every leaf/parent pair
\* whose key ids do not match, also when the leaf has no authority-key-id or the
\* parent has no subject-key-id, and the signature check is not performed.
C2_Original ==
    (ChainEnded /\ ~KeyIdMatches(vcert, vparent)) =>
        (vresult = "InvalidAuthKey" /\ ~sigChecked)

\* C2 (amended): when the key ids do not match, the signature check is not
\* performed and add_cert returns invalid-auth-key, except that a leaf with an
\* authority-key-id checked against a parent without subject-key-id returns
\* Invalid; no link whose key ids do not match is accepted.
C2_KeyIdCheckFirst ==
    /\ (ChainEnded /\ ~KeyIdMatches(vcert, vparent)) =>
          /\ ~sigChecked
          /\ vresult = IF vcert.auth_key_id # None /\ vparent.subj_key_id = None
                       THEN "Invalid" ELSE "InvalidAuthKey"
    /\ (vphase = "walking" /\ nlinks > 0) => linksOk

C2_Witness ==
    /\ vphase = "failed"
    /\ vcert.auth_key_id # None /\ vparent.subj_key_id # None
    /\ vcert.auth_key_id # vparent.subj_key_id
    /\ vcert.signature # vparent.pubkey
    /\ vresult = "InvalidAuthKey" /\ ~sigChecked

C4_FinaliseNeedsSelfSigned ==
    vphase = "final" =>
        /\ (vresult = "Ok" => SelfSigned(vcert))
        /\ (/\ vcert.auth_key_id # None /\ vcert.subj_key_id # None
            /\ vcert.auth_key_id # vcert.subj_key_id) => vresult = "InvalidAuthKey"

C4_Witness ==
    /\ vphase = "final" /\ nlinks = 1
    /\ vcert.auth_key_id # None /\ vcert.subj_key_id # None
    /\ vcert.auth_key_id # vcert.subj_key_id
    /\ vcert.signature = vcert.pubkey
    /\ vresult = "InvalidAuthKey"

(***************************************************************************)
(* Properties of attribute reads and writes                                *)
(***************************************************************************)
IsWildcard(gp) == gp.endpoint = None \/ gp.cluster = None \/ gp.leaf = None

Indices(q) == 1..Len(q)

\* the endpoints of the tree that host cluster c
EndpointsWith(c) ==
    { e \in 0..(Len(node.endpoints) - 1) :
        \E k \in Indices(node.endpoints[e + 1].clusters) :
            node.endpoints[e + 1].clusters[k].id = c }

\* the attribute a of cluster c on endpoint e, as a set of at most one record
AttributesAt(e, c, a) ==
    { node.endpoints[e + 1].clusters[k].attributes[j] :
        <<k, j>> \in { x \in (1..2) \X (1..4) :
            /\ x[1] \in Indices(node.endpoints[e + 1].clusters)
            /\ node.endpoints[e + 1].clusters[x[1]].id = c
            /\ x[2] \in Indices(node.endpoints[e + 1].clusters[x[1]].attributes)
            /\ node.endpoints[e + 1].clusters[x[1]].attributes[x[2]].id = a } }

\* C5: in a read request a wildcard attribute path never produces an
\* AttributeStatus: an attribute whose read fails adds nothing to the response,
\* and exactly the successfully read attributes contribute an AttributeReport.
C5_WildcardReadNoStatus ==
    req.kind = "read" =>
        /\ \A i \in Indices(tw) :
              tw[i].kind = "AttrStatus" =>
                 \E j \in Indices(req.paths) :
                    ~IsWildcard(req.paths[j]) /\ tw[i].path = req.paths[j]
        /\ (\A j \in Indices(req.paths) : IsWildcard(req.paths[j])) =>
              LET ok == SelectSeq(calls, LAMBDA c : c.res = "Ok")
              IN /\ Len(tw) = Len(ok)
                 /\ \A i \in Indices(tw) :
                       tw[i].kind = "AttrData" /\ tw[i].path = ok[i].path

C5_Witness ==
    /\ req.kind = "read" /\ Len(req.paths) = 1 /\ IsWildcard(req.paths[1])
    /\ \E i \in Indices(calls) : calls[i].res = "UnsupportedRead"
    /\ \E i \in Indices(calls) : calls[i].res = "Ok"
    /\ Len(tw) > 0 /\ Len(tw) < Len(calls)

\* a write path the Write interaction refuses: wildcard cluster or attribute
RefusedWrite(gp) == gp.cluster = None \/ gp.leaf = None

RefusedWriteStatus(gp) ==
    IF gp.cluster = None THEN "UnsupportedCluster" ELSE "UnsupportedAttribute"

\* C6: a write whose path has a wildcard cluster fails as a whole with
\* unsupported-cluster, one whose cluster is concrete and attribute wildcard with
\* unsupported-attribute; exactly one AttrStatus is emitted for the request path,
\* no write_attribute is invoked and no value or data version changes.
C6_WildcardClusterOrAttrWriteFails ==
    /\ [](req.kind = "write" /\ (\A j \in Indices(req.paths) : RefusedWrite(req.paths[j]))
            => /\ calls = <<>>
               /\ tw = [j \in Indices(req.paths) |->
                          AttrStatus(req.paths[j], RefusedWriteStatus(req.paths[j]))])
    /\ [][(req'.kind = "write"
            /\ \A j \in Indices(req'.paths) : RefusedWrite(req'.paths[j]))
          => node' = node]_vars

C6_Witness ==
    /\ req.kind = "write" /\ Len(req.paths) = 1 /\ req.data.kind = "Tlv"
    /\ req.paths[1].endpoint = None /\ req.paths[1].cluster # None
    /\ req.paths[1].cluster # UNKNOWN_ID /\ req.paths[1].leaf = None
    /\ Len(node.endpoints) = MaxEndpoints
    /\ tw = <<AttrStatus(req.paths[1], "UnsupportedAttribute")>>

\* the write of the request's data to attribute a of cluster c on endpoint e succeeds
WriteSucceeds(e, c, a) ==
    /\ req.data.kind = "Tlv"
    /\ \E at \in AttributesAt(e, c, a) : at.access # "RV"

\* C7: a write with concrete cluster and attribute and wildcard endpoint is
\* applied to every endpoint that has the cluster; each endpoint where it succeeds
\* contributes one Success AttrStatus with that endpoint's concrete path, each
\* endpoint where it fails contributes no entry.
C7_WildcardEndpointWrite ==
    (/\ req.kind = "write" /\ Len(req.paths) = 1
     /\ req.paths[1].endpoint = None /\ ~RefusedWrite(req.paths[1]))
    => LET c == req.paths[1].cluster
           a == req.paths[1].leaf
           succ == { e \in EndpointsWith(c) : WriteSucceeds(e, c, a) }
       IN /\ Len(calls) = Cardinality(EndpointsWith(c))
          /\ \A e \in EndpointsWith(c) :
                \E j \in Indices(calls) : calls[j].path = GenericPath(e, c, a)
          /\ Len(tw) = Cardinality(succ)
          /\ \A e \in succ :
                /\ \E i \in Indices(tw) :
                      tw[i] = AttrStatus(GenericPath(e, c, a), "Sucess")
                /\ \A at \in AttributesAt(e, c, a) : at.value = req.data.value

C7_Witness ==
    /\ req.kind = "write" /\ Len(req.paths) = 1
    /\ req.paths[1] = GenericPath(None, ECHO_CLUSTER_ID, AttOpt)
    /\ Len(calls) = 2 /\ Len(tw) = 1
    /\ calls[2].res = "UnsupportedAttribute"
    /\ tw[1] = AttrStatus(GenericPath(0, ECHO_CLUSTER_ID, AttOpt), "Sucess")

(***************************************************************************)
(* Properties of command invocation                                        *)
(***************************************************************************)
\* the commands a cluster supports
SupportedCommands(c) ==
    IF c = CLUSTER_GENERAL_COMMISSIONING_ID
    THEN {CMD_ARMFAILSAFE_ID, CMD_SETREGULATORYCONFIG_ID, CMD_COMMISSIONING_COMPLETE_ID}
    ELSE IF c = ECHO_CLUSTER_ID THEN {EchoReq} ELSE {}

\* C8: in an invoke with a wildcard path, a handler result of unsupported-command
\* produces no response entry, and any other handler error produces one status
\* entry carrying the concrete path of the cluster that returned it.
C8_WildcardInvokeErrors ==
    (req.kind = "invoke" /\ \A j \in Indices(req.paths) : IsWildcard(req.paths[j]))
    => LET errs == SelectSeq(calls, LAMBDA c : c.res \notin {"Ok", "UnsupportedCommand"})
           stats == SelectSeq(tw, LAMBDA e : e.kind = "CmdStatus")
           answered == SelectSeq(calls, LAMBDA c : c.res # "UnsupportedCommand")
       IN /\ stats = [i \in Indices(errs) |-> CmdStatus(errs[i].path, errs[i].res)]
          /\ Len(tw) = Len(answered)
          /\ \A i \in Indices(calls) :
                calls[i].path.endpoint # None /\ calls[i].path.cluster # None

C8_Witness ==
    /\ req.kind = "invoke" /\ Len(req.paths) = 1 /\ IsWildcard(req.paths[1])
    /\ \E i \in Indices(calls) : calls[i].res = "UnsupportedCommand"
    /\ \E i \in Indices(calls) : calls[i].res = "InvalidCommand"
    /\ \E i \in Indices(tw) :
          /\ tw[i].kind = "CmdStatus" /\ tw[i].status = "InvalidCommand"
          /\ tw[i].path.endpoint = 0
    /\ Len(tw) < Len(calls)

\* C9: an invoke path with wildcard endpoint that no endpoint can serve yields
\* exactly one status entry carrying the request's wildcard path:
\* UnsupportedCluster when no endpoint has the cluster, UnsupportedCommand when
\* the cluster exists but does not support the command.
C9_WildcardInvokeUnserved ==
    (/\ req.kind = "invoke" /\ Len(req.paths) = 1
     /\ req.paths[1].endpoint = None
     /\ req.paths[1].cluster # None /\ req.paths[1].leaf # None)
    => /\ EndpointsWith(req.paths[1].cluster) = {}
            => tw = <<CmdStatus(req.paths[1], "UnsupportedCluster")>>
       /\ (/\ EndpointsWith(req.paths[1].cluster) # {}
           /\ req.paths[1].leaf \notin SupportedCommands(req.paths[1].cluster))
            => tw = <<CmdStatus(req.paths[1], "UnsupportedCommand")>>

\* C10: an invoke with a fully concrete path yields exactly one response entry:
\* UnsupportedEndpoint when the endpoint is absent, UnsupportedCluster when the
\* endpoint lacks the cluster, UnsupportedCommand when the cluster does not
\* support the command, and otherwise what the cluster's handler emits.
C10_ConcreteInvokeOneEntry ==
    (req.kind = "invoke" /\ Len(req.paths) = 1 /\ ~IsWildcard(req.paths[1]))
    => LET p == req.paths[1]
       IN /\ Len(tw) = 1
          /\ p.endpoint >= Len(node.endpoints)
                => calls = <<>> /\ tw[1] = CmdStatus(p, "UnsupportedEndpoint")
          /\ (p.endpoint < Len(node.endpoints) /\ p.endpoint \notin EndpointsWith(p.cluster))
                => calls = <<>> /\ tw[1] = CmdStatus(p, "UnsupportedCluster")
          /\ p.endpoint \in EndpointsWith(p.cluster)
                => /\ Len(calls) = 1 /\ calls[1].path = p
                   /\ p.leaf \notin SupportedCommands(p.cluster)
                         => tw[1] = CmdStatus(p, "UnsupportedCommand")
                   /\ calls[1].res # "Ok" => tw[1] = CmdStatus(p, calls[1].res)
                   /\ calls[1].res = "Ok"
                         => tw[1].kind = "CmdData" /\ tw[1].path.cluster = p.cluster

C10_Witness ==
    /\ req.kind = "invoke" /\ Len(req.paths) = 1
    /\ req.paths[1] = GenericPath(Len(node.endpoints), ECHO_CLUSTER_ID, EchoReq)
    /\ tw = <<CmdStatus(req.paths[1], "UnsupportedEndpoint")>>

\* C11: an invoke with wildcard endpoint and concrete cluster dispatches the
\* command once to each endpoint that has the cluster, in ascending endpoint
\* order; each response entry carries the concrete path of the endpoint that
\* handled it, and endpoints lacking the cluster contribute no entry.
C11_WildcardEndpointInvoke ==
    (/\ req.kind = "invoke" /\ Len(req.paths) = 1
     /\ req.paths[1].endpoint = None
     /\ req.paths[1].cluster # None /\ req.paths[1].leaf # None)
    => LET c == req.paths[1].cluster
           l == req.paths[1].leaf
           eps == EndpointsWith(c)
       IN /\ Len(calls) = Cardinality(eps)
          /\ \A i \in Indices(calls) :
                /\ calls[i].path.endpoint \in eps
                /\ calls[i].path = GenericPath(calls[i].path.endpoint, c, l)
          /\ \A i, j \in Indices(calls) :
                i < j => calls[i].path.endpoint < calls[j].path.endpoint
          /\ \A i \in Indices(tw) :
                /\ tw[i].path.endpoint \in eps /\ tw[i].path.cluster = c
                /\ \E j \in Indices(calls) :
                      /\ calls[j].path.endpoint = tw[i].path.endpoint
                      /\ calls[j].res # "UnsupportedCommand"
          /\ \A i, j \in Indices(tw) :
                i < j => tw[i].path.endpoint < tw[j].path.endpoint

C11_Witness ==
    /\ req.kind = "invoke" /\ Len(req.paths) = 1
    /\ req.paths[1] = GenericPath(None, ECHO_CLUSTER_ID, EchoReq)
    /\ Len(node.endpoints) = MaxEndpoints
    /\ EndpointsWith(ECHO_CLUSTER_ID) = {0, MaxEndpoints - 1}
    /\ tw = << CmdData(GenericPath(0, ECHO_CLUSTER_ID, EchoResp), 0),
               CmdData(GenericPath(MaxEndpoints - 1, ECHO_CLUSTER_ID, EchoResp), 0) >>

(***************************************************************************)
(* Ordering within one request                                             *)
(***************************************************************************)
\* a response entry lies under a request path: the path's concrete endpoint and
\* cluster are the entry's
Under(entry, gp) ==
    /\ gp.endpoint # None => entry.path.endpoint = gp.endpoint
    /\ gp.cluster # None => entry.path.cluster = gp.cluster

\* C12: within one read, write or invoke request the response entries appear
\* in the order of the request's path list: every entry produced for the i-th
\* request path precedes every entry produced for the (i+1)-th path.
C12_ResponseOrder ==
    req.kind \in {"read", "write", "invoke"} =>
        /\ Len(origin) = Len(tw)
        /\ \A k \in Indices(tw) :
              /\ origin[k] \in Indices(req.paths)
              /\ Under(tw[k], req.paths[origin[k]])
        /\ \A j, k \in Indices(tw) : j < k => origin[j] <= origin[k]

C12_Witness ==
    /\ req.kind = "read" /\ Len(req.paths) = 2
    /\ req.paths[1] = GenericPath(0, CLUSTER_GENERAL_COMMISSIONING_ID, None)
    /\ req.paths[2] = GenericPath(0, ECHO_CLUSTER_ID, Att1)
    /\ origin = <<1, 1, 1, 1, 2>>
    /\ tw[4].path.cluster = CLUSTER_GENERAL_COMMISSIONING_ID
    /\ tw[5].path.cluster = ECHO_CLUSTER_ID

(***************************************************************************)
(* Properties of requests served in parallel                               *)
(***************************************************************************)
\* thread t is in the middle of its request: a path handled, a path to go
MidRequest(t) ==
    /\ th[t].pc \in {"run", "wait"}
    /\ 1 < th[t].i /\ th[t].i <= Len(th[t].paths)

\* C13: a read request holds the shared lock and a write or invoke request the
\* exclusive lock for the whole request (all of its paths), so that between two
\* paths of a request the tree is as the request left it: no other thread's
\* write or command has run.
C13_WholeRequestLocked ==
    \A t \in Threads :
        MidRequest(t) =>
            /\ th[t].kind = "read" => t \in lock.readers
            /\ th[t].kind \in {"write", "invoke"} => lock.writer = t
            /\ th[t].seen = node

\* the successful attribute writes to cluster c that response w reports
SuccessCount(w, c) ==
    Len(SelectSeq(w, LAMBDA e : /\ e.kind = "AttrStatus" /\ e.status = "Sucess"
                                /\ e.path.cluster = c))

RECURSIVE SumOver(_, _)
SumOver(S, c) ==
    IF S = {} THEN 0
    ELSE LET t == CHOOSE x \in S : TRUE
         IN SuccessCount(th[t].tw, c) + SumOver(S \ {t}, c)

WriteThreads == { t \in Threads : th[t].kind = "write" }

\* C14: every attribute write that succeeds increases the data version of the
\* written cluster by exactly one and a write that fails leaves it unchanged;
\* under any interleaving of concurrent write requests no increment is lost: a
\* cluster's data version is the number of successful writes to it so far.
C14_DataVerCountsWrites ==
    /\ \A k \in Indices(node.endpoints[1].clusters) :
          LET c == node.endpoints[1].clusters[k]
          IN c.dataver = SumOver(WriteThreads, c.id)
    /\ \A t \in WriteThreads :
          th[t].pc = "run" =>
             /\ lock.writer = t
             /\ \A u \in Threads \ {t} : th[u].pc # "run"

C14_Witness ==
    /\ \A t \in Threads : th[t].kind = "write" /\ th[t].pc = "done"
    /\ \E t \in Threads : Len(th[t].tw) = 2
    /\ \E t \in Threads : \E i \in Indices(th[t].tw) :
          th[t].tw[i] = AttrStatus(GenericPath(0, ECHO_CLUSTER_ID, 0), "UnsupportedWrite")
    /\ \A t \in Threads :
          SuccessCount(th[t].tw, CLUSTER_GENERAL_COMMISSIONING_ID) = 1
    /\ node.endpoints[1].clusters[1].dataver = 2
    /\ node.endpoints[1].clusters[2].dataver = 0

(***************************************************************************)
(* The rewindable writer of a read                                         *)
(***************************************************************************)
\* C15: when emitting one AttributeReport fails part-way, the writer's tail is
\* restored to the offset it had before the attempt, so the response never
\* holds a partially written report; for a concrete path the AttributeStatus of
\* the error is appended at that restored offset.
C15_ReadRewinds ==
    req.kind = "read" =>
        /\ \A i \in Indices(tw) : tw[i].kind \in {"AttrData", "AttrStatus"}
        /\ (\A j \in Indices(req.paths) : ~IsWildcard(req.paths[j])) =>
              /\ Len(tw) = Len(req.paths)
              /\ \A j \in Indices(req.paths) :
                    /\ tw[j].path = req.paths[j]
                    /\ \A i \in Indices(calls) :
                          (calls[i].path = req.paths[j] /\ calls[i].res # "Ok")
                             => tw[j] = AttrStatus(req.paths[j], calls[i].res)

C15_Witness ==
    /\ req.kind = "read"
    /\ req.paths = << GenericPath(0, ECHO_CLUSTER_ID, Att1),
                      GenericPath(1, ECHO_CLUSTER_ID, AttWrite) >>
    /\ Len(calls) = 2 /\ calls[2].res = "UnsupportedRead"
    /\ Len(tw) = 2 /\ tw[1].kind = "AttrData"
    /\ tw[2] = AttrStatus(req.paths[2], "UnsupportedRead")

(***************************************************************************)
(* Properties of the CASE handshake                                        *)
(***************************************************************************)
\* the Sigma1 handled last decoded: its four tags found, the session id a u8
Decoded ==
    /\ proto_rx.opcode = "Sigma1"
    /\ proto_rx.tags = {1, 2, 3, 4}
    /\ get_u8(proto_rx.initiator_sessid).ok

\* Sigma1 was handled to its end: Sigma2 is the reply
Sigma1Handled ==
    /\ proto_rx.opcode = "Sigma1"
    /\ case_result = "Ok"
    /\ ~exchange.closed

C17_Sigma1StateAttached ==
    /\ [](Sigma1Handled =>
            /\ exchange.data.state = "Sigma1Rx"
            /\ exchange.data.initiator_sessid = proto_rx.initiator_sessid.value
            /\ exchange.data.tt_hash = << proto_rx >>
            /\ proto_tx = Sigma2Items)
    /\ [][(exchange'.data # exchange.data /\ exchange'.data # NoCaseSession) =>
            (proto_tx' = Sigma2Items /\ case_result' = "Ok")]_vars

C17_Witness ==
    /\ Sigma1Handled
    /\ proto_rx.initiator_sessid = U8(255)
    /\ exchange.data = CaseSession(255, << proto_rx >>)
    /\ proto_tx = Sigma2Items

\* C18: every fatal error during the handshake (missing fabric, signing or
\* key-derivation failure, lack of capacity) results in a secure-channel status
\* report written as the reply, the exchange closed, and no handshake state
\* remaining on the exchange.
C18_FatalErrorsReported ==
    (/\ Decoded
     /\ \/ case_result \in {"Crypto", "NoSpace"}
        \/ proto_rx.dest_id \notin LocalDestIds)
    => /\ Len(proto_tx) = 1 /\ proto_tx[1].kind = "StatusReport"
       /\ exchange.closed
       /\ exchange.data = NoCaseSession

\* C19: handling a Sigma3 on an exchange whose handshake state is in phase
\* Sigma1-received verifies the initiator's signature and certificate chain, and
\* when it returns success a session has been installed in the session table.
C19_Sigma3InstallsSession ==
    (proto_rx.opcode = "Sigma3" /\ exchange.data.state = "Sigma1Rx")
    => /\ proto_rx.signature = "bad" => case_result # "Ok"
       /\ case_result = "Ok" => sessions # <<>>

\* C20: after Sigma1 has been received and Sigma2 sent, the transcript stored
\* on the exchange covers the Sigma1 bytes followed by the Sigma2 bytes.
C20_TranscriptCoversSigma2 ==
    Sigma1Handled => exchange.data.tt_hash = << proto_rx, proto_tx >>


(***************************************************************************)
(* Properties of the session table and of exchanges                        *)
(***************************************************************************)
AddStep ==
    /\ sess_ret'.op = "add"
    /\ <<sessions, sess_ret>>' # <<sessions, sess_ret>>

\* C21: SessionMgr.add succeeds while the table holds fewer than 16
\* sessions and appends the session; on a full table it fails with the
\* "All sessions full" error and leaves the table unchanged; the table never
\* holds more than 16 sessions.
C21_AddWithinCapacity ==
    /\ [](Len(sessions) <= SessionsCapacity)
    /\ [][AddStep =>
            IF Len(sessions) < SessionsCapacity
            THEN /\ sess_ret'.ret.ok
                 /\ Len(sessions') = Len(sessions) + 1
                 /\ SubSeq(sessions', 1, Len(sessions)) = sessions
            ELSE /\ ~sess_ret'.ret.ok
                 /\ sess_ret'.ret.err = "All sessions full"
                 /\ sessions' = sessions]_vars

\* an add was refused on a full table
C21_Witness ==
    /\ Len(sessions) = SessionsCapacity
    /\ sess_ret.op = "add"
    /\ ~sess_ret.ret.ok

GetExchangeStep ==
    /\ sess_ret'.op = "get_exchange"
    /\ <<session, sess_ret>>' # <<session, sess_ret>>

\* the exchanges of the session that match the arguments of the call made
Existing ==
    { i \in DOMAIN session.exchanges :
        /\ session.exchanges[i].id = sess_ret'.id
        /\ session.exchanges[i].role =
              IF sess_ret'.is_peer_initiator THEN "Responder" ELSE "Initiator" }

Created ==
    /\ session'.exchanges =
          Append(session.exchanges,
                 [id |-> sess_ret'.id, role |-> "Responder", pending_ack |-> None])
    /\ sess_ret'.ret = Len(session.exchanges) + 1

\* C22 as stated: get_exchange returns the existing exchange matching (id,
\* role); when there is none it creates and returns a new responder exchange
\* with no pending ack if the peer is the initiator, and returns nothing and
\* creates nothing if the peer is not the initiator.
C22_Original ==
    [][GetExchangeStep =>
         IF Existing # {}
         THEN session' = session /\ sess_ret'.ret \in Existing
         ELSE IF sess_ret'.is_peer_initiator
              THEN Created
              ELSE session' = session /\ sess_ret'.ret = None]_vars

\* C22: get_exchange returns the existing exchange matching (id, role); when
\* there is none, the peer is the initiator and the session holds fewer
\* than 4 exchanges, it creates and returns a new responder exchange with no
\* pending ack; when there is none and the peer is not the initiator it
\* returns nothing and creates nothing.
C22_GetExchange ==
    [][GetExchangeStep =>
         IF Existing # {}
         THEN session' = session /\ sess_ret'.ret \in Existing
         ELSE IF sess_ret'.is_peer_initiator
              THEN Len(session.exchanges) < ExchangesCapacity => Created
              ELSE session' = session /\ sess_ret'.ret = None]_vars

\* get_exchange returned an exchange that was there before the call (it has
\* a pending ack), in a session of several exchanges
C22_Witness ==
    /\ sess_ret.op = "get_exchange"
    /\ sess_ret.ret # None
    /\ Len(session.exchanges) >= 2
    /\ session.exchanges[sess_ret.ret].pending_ack # None

Overflow ==
    /\ GetExchangeStep
    /\ sess_ret'.is_peer_initiator
    /\ Existing = {}
    /\ Len(session.exchanges) = ExchangesCapacity

C24_TlvRoundTrip ==
    cert_out.op = "as_tlv" => cert_out.tlv = cert_in

Opens == {"start_seq", "start_set", "start_ctx", "start_compound_ostr"}
Closes == {"end_seq", "end_set", "end_ctx", "end_compound_ostr"}

\* nesting depth after the first n calls
DepthAfter(ws, n) ==
    Cardinality({ i \in 1..n : ws[i].w \in Opens })
    - Cardinality({ i \in 1..n : ws[i].w \in Closes })

\* the members of a set of indices, in ascending order
Ordered(I) ==
    [k \in 1..Cardinality(I) |->
        CHOOSE i \in I : Cardinality({ j \in I : j < i }) = k - 1]

\* the calls made at nesting depth d, in order, the closing calls left out
AtDepth(ws, d) ==
    LET I == { i \in DOMAIN ws : DepthAfter(ws, i - 1) = d /\ ws[i].w \notin Closes }
        at == Ordered(I)
    IN  [k \in DOMAIN at |-> ws[at[k]]]

Labels(ws) == [i \in DOMAIN ws |-> <<ws[i].w, ws[i].tag>>]

DerMade == cert_out.op = "as_asn1" /\ cert_out.der.ok

\* C25: the DER made by as_asn1 is one SEQUENCE whose elements are version,
\* serial, signature algorithm, issuer, validity, subject, public-key info
\* and extensions, in that order; it ends with the extensions and no call
\* writes the certificate's signature.
C25_DerOmitsSignature ==
    DerMade =>
        LET ws == cert_out.der.val
        IN  /\ ws[1].w = "start_seq"
            /\ \A n \in 1..(Len(ws) - 1) : DepthAfter(ws, n) >= 1
            /\ DepthAfter(ws, Len(ws)) = 0
            /\ Labels(AtDepth(ws, 1)) =
                  << <<"start_ctx", "Version:">>, <<"integer", "Serial Num:">>,
                     <<"start_seq", "Signature Algorithm:">>, <<"start_seq", "Issuer:">>,
                     <<"start_seq", "Validity:">>, <<"start_seq", "Subject:">>,
                     <<"start_seq", "">>, <<"start_ctx", "X509v3 extensions:">> >>
            /\ \A i \in DOMAIN ws :
                  ws[i].w \in {"integer", "bitstr", "ostr", "ctx"}
                     => ws[i].val # cert_out.cert.val.signature

\* DER was made of a certificate with names and all five extensions
C25_Witness ==
    /\ DerMade
    /\ cert_out.cert.val.issuer # <<>>
    /\ cert_out.cert.val.subject # <<>>
    /\ cert_out.cert.val.extensions.basic_const # Absent
    /\ cert_out.cert.val.extensions.ext_key_usage # Absent
    /\ cert_out.cert.val.extensions.auth_key_id # Absent

\* the recognised distinguished names of a TLV list, as DER shows them:
\* the OID of the kind and the value in hexadecimal digits
DnOidOf(tag) ==
    CASE tag = NodeId -> "OID_MATTER_NODE_ID"
      [] tag = FirmwareSignId -> "OID_MATTER_FW_SIGN_ID"
      [] tag = IcaId -> "OID_MATTER_ICA_ID"
      [] tag = RootCaId -> "OID_MATTER_ROOT_CA_ID"
      [] tag = FabricId -> "OID_MATTER_FABRIC_ID"
      [] tag = NocCat -> "OID_MATTER_NOC_CAT_ID"

Recognised(items) ==
    LET at == Ordered({ i \in DOMAIN items : items[i].tag \in NodeId..NocCat })
    IN  [k \in DOMAIN at |->
            <<DnOidOf(items[at[k]].tag),
              Hex(IF items[at[k]].tag = NocCat THEN 8 ELSE 16, items[at[k]].num)>>]

\* the names written to DER inside the SEQUENCE labelled so
DerNames(ws, label) ==
    LET p == CHOOSE i \in DOMAIN ws : ws[i].w = "start_seq" /\ ws[i].tag = label
        q == CHOOSE i \in p..Len(ws) :
                /\ DepthAfter(ws, i) = DepthAfter(ws, p - 1)
                /\ \A j \in p..(i - 1) : DepthAfter(ws, j) > DepthAfter(ws, p - 1)
        at == Ordered({ i \in p..q : ws[i].w = "utf8str" })
    IN  [k \in DOMAIN at |-> <<ws[at[k] - 1].val, ws[at[k]].val>>]

\* C26: the distinguished names of issuer and subject are written to DER in
\* the order in which they arrived in the TLV certificate: the recognised
\* entries of the TLV list and the names in the DER are the same sequence,
\* nothing sorted, nothing dropped for being there twice.
C26_DnOrderKept ==
    DerMade =>
        /\ DerNames(cert_out.der.val, "Issuer:") = Recognised(cert_in.items[Issuer].items)
        /\ DerNames(cert_out.der.val, "Subject:") = Recognised(cert_in.items[Subject].items)

\* DER was made of an issuer whose two names arrived in descending tag order
C26_Witness ==
    /\ DerMade
    /\ cert_in.items[Issuer].items = <<UInt(NocCat, 1), UInt(NodeId, 2)>>
    /\ Len(DerNames(cert_out.der.val, "Issuer:")) = 2

\* the extension with this OID is in the DER
Emitted(ws, oid) ==
    \E i \in DOMAIN ws : ws[i].w = "oid" /\ ws[i].val = oid

\* the extension with this OID carries the criticality BOOLEAN, and it is true
Critical(ws, oid) ==
    \E i \in 1..(Len(ws) - 1) :
        /\ ws[i].w = "oid" /\ ws[i].val = oid
        /\ ws[i + 1].w = "bool" /\ ws[i + 1].tag = "critical:" /\ ws[i + 1].val

DecodedExts == cert_out.cert.val.extensions

\* C27 as stated: basic-constraints and key-usage are emitted critical
\* whenever present; extended-key-usage, subject-key-id and authority-key-id
\* are emitted without a criticality BOOLEAN whenever present.
C27_Original ==
    DerMade =>
        LET ws == cert_out.der.val
        IN  /\ DecodedExts.basic_const # Absent => Critical(ws, "OID_BASIC_CONSTRAINTS")
            /\ DecodedExts.key_usage # Absent => Critical(ws, "OID_KEY_USAGE")
            /\ DecodedExts.ext_key_usage # Absent =>
                  Emitted(ws, "OID_EXT_KEY_USAGE") /\ ~Critical(ws, "OID_EXT_KEY_USAGE")
            /\ DecodedExts.subj_key_id # Absent =>
                  Emitted(ws, "OID_SUBJ_KEY_IDENTIFIER")
                  /\ ~Critical(ws, "OID_SUBJ_KEY_IDENTIFIER")
            /\ DecodedExts.auth_key_id # Absent =>
                  Emitted(ws, "OID_AUTH_KEY_ID") /\ ~Critical(ws, "OID_AUTH_KEY_ID")

\* C27: basic-constraints, key-usage and extended-key-usage are emitted
\* with the criticality BOOLEAN true whenever present; subject-key-id and
\* authority-key-id are emitted without a criticality BOOLEAN whenever
\* present.
C27_Criticality ==
    DerMade =>
        LET ws == cert_out.der.val
        IN  /\ DecodedExts.basic_const # Absent => Critical(ws, "OID_BASIC_CONSTRAINTS")
            /\ DecodedExts.key_usage # Absent => Critical(ws, "OID_KEY_USAGE")
            /\ DecodedExts.ext_key_usage # Absent => Critical(ws, "OID_EXT_KEY_USAGE")
            /\ DecodedExts.subj_key_id # Absent =>
                  Emitted(ws, "OID_SUBJ_KEY_IDENTIFIER")
                  /\ ~Critical(ws, "OID_SUBJ_KEY_IDENTIFIER")
            /\ DecodedExts.auth_key_id # Absent =>
                  Emitted(ws, "OID_AUTH_KEY_ID") /\ ~Critical(ws, "OID_AUTH_KEY_ID")

\* DER was made of a certificate that has all five extensions
C27_Witness ==
    /\ DerMade
    /\ DecodedExts.basic_const # Absent
    /\ DecodedExts.key_usage # Absent
    /\ DecodedExts.ext_key_usage # Absent
    /\ DecodedExts.subj_key_id # Absent
    /\ DecodedExts.auth_key_id # Absent
    /\ Emitted(cert_out.der.val, "OID_EXT_KEY_USAGE")

KeyPurposeOid(t) ==
    CASE t = 1 -> "OID_SERVER_AUTH" [] t = 2 -> "OID_CLIENT_AUTH"
      [] t = 3 -> "OID_CODE_SIGN" [] t = 4 -> "OID_EMAIL_PROT"
      [] t = 5 -> "OID_TIMESTAMP" [] t = 6 -> "OID_OCSP_SIGN"

\* the OIDs written inside the extended key usage extension
EkuWritten(ws) ==
    LET p == CHOOSE i \in DOMAIN ws : ws[i].w = "oid" /\ ws[i].val = "OID_EXT_KEY_USAGE"
        q == CHOOSE i \in p..Len(ws) :
                /\ ws[i].w = "end_compound_ostr"
                /\ \A j \in p..(i - 1) : ws[j].w # "end_compound_ostr"
        at == Ordered({ i \in (p + 1)..q : ws[i].w = "oid" })
    IN  [k \in DOMAIN at |-> ws[at[k]].val]

\* C28: for every extended-key-usage list, DER emission completes without
\* failure; each entry in 1..6 is written as its OID, in list order, and
\* every other entry (0, 7 and above) is skipped.
C28_EkuOutOfRangeSkipped ==
    (cert_out.op = "as_asn1" /\ cert_out.cert.val.sign_algo = ECDSAWithSHA256
     /\ DecodedExts.ext_key_usage # Absent) =>
        /\ cert_out.der.ok
        /\ LET list == DecodedExts.ext_key_usage[1]
               at == Ordered({ i \in DOMAIN list : list[i] \in 1..6 })
           IN  EkuWritten(cert_out.der.val) = [k \in DOMAIN at |-> KeyPurposeOid(list[at[k]])]

(***************************************************************************)
(* Properties of the read request handler                                  *)
(***************************************************************************)
ReadHandled == req.kind = "read_req"

FramingKinds ==
    {"StartStruct", "StartArray AttributeReports", "EndContainer", "SupressResponse true"}

\* C29: a successful reply is framed as: open struct, the AttributeReports
\* array opened and closed around the entries (only when the request has
\* attribute paths), SuppressResponse = true, close struct; and the
\* transaction is complete if and only if the handler returned success.
C29_ReadReplyFraming ==
    ReadHandled =>
        /\ complete <=> im_result.ok
        /\ im_result.ok =>
              LET n == Len(tw)
                  has_paths == req.read_req.attr_requests # Absent
              IN  /\ n >= 3
                  /\ tw[1].kind = "StartStruct"
                  /\ tw[n - 1].kind = "SupressResponse true"
                  /\ tw[n].kind = "EndContainer"
                  /\ ~has_paths => n = 3
                  /\ has_paths =>
                        /\ n >= 5
                        /\ tw[2].kind = "StartArray AttributeReports"
                        /\ tw[n - 2].kind = "EndContainer"
                        /\ \A i \in 3..(n - 3) : tw[i].kind \notin FramingKinds

\* a successful reply that carries entries between the array's brackets
C29_Witness ==
    /\ ReadHandled
    /\ im_result.ok
    /\ complete
    /\ Len(tw) >= 7

\* C30: the fabric-filtered flag and the data-version filters have no
\* effect: the reply, the result and the completion are those of the same
\* request with the flag cleared and the filters absent, on the same tree.
C30_FiltersIgnored ==
    ReadHandled =>
        LET plain == handle_read_req(node,
                                     ReadReq(req.read_req.attr_requests, FALSE, Absent),
                                     req.env)
        IN  /\ tw = plain.tx
            /\ im_result = plain.result
            /\ complete = plain.complete

\* a fabric-filtered read with data-version filters was answered with entries
C30_Witness ==
    /\ ReadHandled
    /\ req.read_req.fabric_filtered
    /\ req.read_req.dataver_filters # Absent
    /\ im_result.ok
    /\ Len(tw) >= 6

(***************************************************************************)
(* Properties of the derive macros                                         *)
(***************************************************************************)
\* the struct carries the bare word `unordered` in its tlvargs, as the
\* documented example does
WrittenUnordered(ast) ==
    /\ Len(ast.attrs) > 0
    /\ ast.attrs[1].path = "tlvargs"
    /\ \E i \in DOMAIN ast.attrs[1].nested : ast.attrs[1].nested[i] = Path("unordered")

DistinctTags(tags) == \A i, j \in DOMAIN tags : tags[i] = tags[j] => i = j

\* C31: a struct annotated with the bare word `unordered`, as in the documented
\* example, is decoded by tag lookup: whatever the order of the elements of the
\* input, decoding succeeds and yields the record that was written.
C31_UnorderedAnyOrder ==
    (/\ derived.op = "from_tlv"
     /\ WrittenUnordered(derived.ast)
     /\ DistinctTags(derived.enc.tags))
    => derived.ret = Ok(derived.self)

\* what the attribute the macros read configures: the start and the datatype
\* written last in it, or the defaults
Configured(ast, key, kind) ==
    IF Len(ast.attrs) > 0 /\ ast.attrs[1].path = "tlvargs"
    THEN LET nested == ast.attrs[1].nested
             set == { i \in DOMAIN nested : /\ nested[i].form = "NameValue"
                                            /\ nested[i].key = key
                                            /\ nested[i].kind = kind }
         IN  IF set = {} THEN <<>>
             ELSE <<nested[CHOOSE i \in set : \A j \in set : j <= i]>>
    ELSE <<>>

ConfiguredBase(ast) ==
    IF Configured(ast, "start", "Int") = <<>> THEN 0
    ELSE Configured(ast, "start", "Int")[1].int

ConfiguredKind(ast) ==
    IF Configured(ast, "datatype", "Str") = <<>> THEN "struct"
    ELSE Configured(ast, "datatype", "Str")[1].str

\* the tag override written on a field, if any
TagvalOf(f) == IF f.attrs = <<>> THEN None ELSE f.attrs[1].nested[1].int

ExpectedTag(ast, i) ==
    IF TagvalOf(ast.fields[i]) # None THEN TagvalOf(ast.fields[i])
    ELSE ConfiguredBase(ast)
         + Cardinality({ j \in 1..(i - 1) : TagvalOf(ast.fields[j]) = None })

\* the fields that hold a value, and the k-th of them in declaration order
Present(self) == { i \in DOMAIN self : self[i] # Absent }
Kth(self, k) ==
    CHOOSE i \in Present(self) : Cardinality({ j \in Present(self) : j <= i }) = k

Emitting ==
    /\ fabmgr.result = "Running"
    /\ fabmgr.fetched # None
    /\ fabmgr.encrypted = None

\* C33: from the moment the matched fabric is fetched until the Sigma2
\* signature and the encrypted payload are both produced, the handler holds
\* the read lock of the fabric manager, so no removal or update of the fabric
\* takes effect in between: the signature and the encryption use the fabric
\* that was fetched.
C33_ReadLockHeld ==
    /\ Emitting => /\ fabmgr.guard
                   /\ fabmgr.readers >= 1
                   /\ ~fabmgr.writer
                   /\ fabmgr.fabric = fabmgr.fetched
    /\ fabmgr.signed # None => fabmgr.signed = fabmgr.fetched
    /\ fabmgr.encrypted # None => fabmgr.encrypted = fabmgr.fetched

\* Sigma2 was signed and encrypted with the fabric fetched, and the fabric was
\* removed or replaced only after the guard was dropped
C33_Witness ==
    /\ fabmgr.result = "Ok"
    /\ fabmgr.encrypted = fabmgr.fetched
    /\ fabmgr.signed = fabmgr.fetched
    /\ fabmgr.fabric # fabmgr.fetched

(***************************************************************************)
(* Properties of the key-usage bit string                                  *)
(***************************************************************************)
Bit(b, i) == (b \div (2 ^ i)) % 2

\* the byte whose bit 7 - i is bit i of b
Mirrored(b) ==
    128 * Bit(b, 0) + 64 * Bit(b, 1) + 32 * Bit(b, 2) + 16 * Bit(b, 3)
    + 8 * Bit(b, 4) + 4 * Bit(b, 5) + 2 * Bit(b, 6) + Bit(b, 7)

\* C34: the two bytes made of the key-usage bitmask are its low byte and its
\* high byte, each with its bit order reversed (bit i becomes bit 7 - i), and
\* reversing a byte twice gives the byte back.
C34_KeyUsageBits ==
    keybits.op = "encode_key_usage" =>
        LET lo == keybits.key_usage % 256
            hi == keybits.key_usage \div 256
        IN  /\ keybits.key_usage_str = << Mirrored(lo), Mirrored(hi) >>
            /\ \A i \in 0..7 : Bit(reverse_byte(lo), 7 - i) = Bit(lo, i)
            /\ reverse_byte(reverse_byte(lo)) = lo
            /\ reverse_byte(reverse_byte(hi)) = hi

\* digitalSignature | keyCertSign | decipherOnly: 0x0121 becomes 0x84 0x80
C34_Witness ==
    /\ keybits.op = "encode_key_usage"
    /\ keybits.key_usage = 289
    /\ keybits.key_usage_str = <<132, 128>>

(***************************************************************************)
(* Properties of the general-commissioning commands                        *)
(***************************************************************************)
\* the request handled is one concrete command of the general-commissioning
\* cluster of endpoint 0
GenCommRequest(cmd) ==
    /\ req.kind = "invoke"
    /\ req.paths = << GenericPath(0, CLUSTER_GENERAL_COMMISSIONING_ID, cmd) >>

\* the fail-safe of the general-commissioning cluster of the node n
FailSafeOf(n) == n.endpoints[1].clusters[1].failsafe

\* the command responses written for the request
Responses == { i \in DOMAIN tw : tw[i].kind = "CmdData" }

\* C35: ArmFailSafe on an armed fail-safe returns Busy, writes no ArmFailSafe
\* response and does not complete the transaction; when arming succeeds it
\* writes exactly one ArmFailSafeResponse with error code Ok and completes the
\* transaction.
C35_ArmFailSafe ==
    [][(/\ req = NoRequest
        /\ GenCommRequest(CMD_ARMFAILSAFE_ID)'
        /\ req'.data = "ArmParams")
       => /\ Len(calls') = 1
          /\ FailSafeOf(node) # "Idle"
                => /\ calls'[1].res = "Busy"
                   /\ Responses' = {}
                   /\ ~complete'
                   /\ node' = node
          /\ FailSafeOf(node) = "Idle"
                => /\ calls'[1].res = "Ok"
                   /\ tw' = << CmdData(GenericPath(0, CLUSTER_GENERAL_COMMISSIONING_ID,
                                                   CMD_ARMFAILSAFE_RESPONSE_ID),
                                       CommissioningError_Ok) >>
                   /\ complete'
                   /\ FailSafeOf(node') = "Armed"]_vars

\* ArmFailSafe was refused with Busy: only the status of the path was written
C35_Witness ==
    /\ GenCommRequest(CMD_ARMFAILSAFE_ID)
    /\ req.data = "ArmParams"
    /\ calls = << Call("handle_command", req.paths[1], "Busy") >>
    /\ tw = << CmdStatus(req.paths[1], "Busy") >>
    /\ ~complete
    /\ FailSafeOf(node) = "Armed"

\* C40: CommissioningComplete always succeeds, writes exactly one
\* CommissioningCompleteResponse and completes the transaction; the status
\* reported is Ok only when the session has a local fabric index and the
\* disarm succeeds, ErrInvalidAuth otherwise; the fail-safe is disarmed on
\* every invocation, also on a session without a fabric index.
C40_CommissioningComplete ==
    [][(/\ req = NoRequest
        /\ GenCommRequest(CMD_COMMISSIONING_COMPLETE_ID)')
       => /\ calls' = << Call("handle_command", req'.paths[1], "Ok") >>
          /\ tw' = << CmdData(GenericPath(0, CLUSTER_GENERAL_COMMISSIONING_ID,
                                          CMD_COMMISSIONING_COMPLETE_RESPONSE_ID),
                              IF req'.has_fabric /\ FailSafeOf(node) = "Armed"
                              THEN CommissioningError_Ok ELSE ErrInvalidAuth) >>
          /\ complete'
          /\ FailSafeOf(node') = "Idle"]_vars

\* CommissioningComplete on a session without a fabric index: ErrInvalidAuth
\* is reported, the transaction is complete and the fail-safe is not armed
C40_Witness ==
    /\ GenCommRequest(CMD_COMMISSIONING_COMPLETE_ID)
    /\ ~req.has_fabric
    /\ tw = << CmdData(GenericPath(0, CLUSTER_GENERAL_COMMISSIONING_ID,
                                   CMD_COMMISSIONING_COMPLETE_RESPONSE_ID),
                       ErrInvalidAuth) >>
    /\ complete
    /\ FailSafeOf(node) = "Idle"

(***************************************************************************)
(* The initiator session id of Sigma1                                      *)
(***************************************************************************)
\* C36: whatever initiator session id in 0..65535 a Sigma1 carries, it is not
\* turned down for its width, and the handshake state stored on the exchange
\* records exactly that id.
C36_SessionIdKept ==
    (proto_rx.opcode = "Sigma1" /\ proto_rx.tags = {1, 2, 3, 4})
    => /\ case_result # "TLVTypeMismatch"
       /\ Sigma1Handled =>
             exchange.data.initiator_sessid = proto_rx.initiator_sessid.value

(***************************************************************************)
(* Further properties of the sessions and exchanges                        *)
(***************************************************************************)
SamePair(x, y) == x.id = y.id /\ x.role = y.role

Unique ==
    \A i, j \in DOMAIN session.exchanges :
        SamePair(session.exchanges[i], session.exchanges[j]) => i = j

\* two exchanges with the same id and different roles
Coexist ==
    \E i, j \in DOMAIN session.exchanges :
        /\ session.exchanges[i].id = session.exchanges[j].id
        /\ session.exchanges[i].role # session.exchanges[j].role

\* C37 as stated: no two exchanges of a session have the same (id, role), and
\* exchanges with the same id and different roles come to coexist.
C37_Original == []Unique /\ <>Coexist

\* C37: after any sequence of get_exchange calls no two exchanges of the
\* session have the same (id, role); every exchange has the role Responder,
\* so no two exchanges have the same id either.
C37_ExchangesDistinct ==
    /\ Unique
    /\ \A i \in DOMAIN session.exchanges : session.exchanges[i].role = "Responder"
    /\ ~Coexist

\* a message of a peer that is not the initiator, for an id the session holds
\* as responder: nothing is returned and the session holds several exchanges
C37_Witness ==
    /\ sess_ret.op = "get_exchange"
    /\ ~sess_ret.is_peer_initiator
    /\ sess_ret.ret = None
    /\ Len(session.exchanges) >= 2
    /\ \E i \in DOMAIN session.exchanges : session.exchanges[i].id = sess_ret.id

\* the sessions of the table with the pair of the last get
Matching ==
    { i \in DOMAIN sessions : /\ sessions[i].session_id = sess_ret.session_id
                              /\ sessions[i].peer_addr = sess_ret.peer_addr }

\* C38: add neither rejects nor replaces a session whose (session-id,
\* peer-address) is already in the table, so sessions with the same pair
\* coexist; get returns the earliest-added session with the pair and never a
\* duplicate added later.
C38_DuplicateSessions ==
    /\ [][(AddStep /\ Len(sessions) < SessionsCapacity)
          => \E q \in Peers : sessions' = Append(sessions, NewSession(q[1], q[2]))]_vars
    /\ [](sess_ret.op = "get" =>
            /\ Matching = {} => sess_ret.ret = None
            /\ Matching # {} => /\ sess_ret.ret \in Matching
                                /\ \A i \in Matching : sess_ret.ret <= i)

\* the table holds the pair of the get at least twice, another session in
\* front of them, and the get returned the first of the duplicates
C38_Witness ==
    /\ sess_ret.op = "get"
    /\ Cardinality(Matching) >= 2
    /\ sess_ret.ret = 2
    /\ 1 \notin Matching

\* the entries of a TLV list of names, as the pairs the parsed record holds
Pairs(items) == [i \in DOMAIN items |-> <<items[i].tag, items[i].num>>]

\* the certificate handed in names a kind outside the recognised ones
HasOtherDn ==
    \E f \in {Issuer, Subject} : \E i \in DOMAIN cert_in.items[f].items :
        cert_in.items[f].items[i].tag \notin NodeId..NocCat

\* C39: a distinguished name whose kind is not one of the recognised ones
\* (tags 17..22) is kept in the parsed record and written again on TLV
\* encoding; in DER it is left out without an error: the DER is made and
\* its names are the recognised entries only.
C39_OtherDnOmitted ==
    (HasOtherDn /\ cert_out.op # "none" /\ cert_out.cert.ok) =>
        /\ cert_out.cert.val.issuer = Pairs(cert_in.items[Issuer].items)
        /\ cert_out.cert.val.subject = Pairs(cert_in.items[Subject].items)
        /\ cert_out.op = "as_tlv" =>
              /\ cert_out.tlv.items[Issuer] = cert_in.items[Issuer]
              /\ cert_out.tlv.items[Subject] = cert_in.items[Subject]
        /\ cert_out.op = "as_asn1" =>
              /\ cert_out.der.ok
              /\ DerNames(cert_out.der.val, "Issuer:")
                    = Recognised(cert_in.items[Issuer].items)
              /\ DerNames(cert_out.der.val, "Subject:")
                    = Recognised(cert_in.items[Subject].items)

\* DER was made of an issuer that names an unrecognised kind before a
\* recognised one
C39_Witness ==
    /\ DerMade
    /\ Pairs(cert_in.items[Issuer].items) = <<<<OtherDn, 1>>, <<NodeId, 1>>>>
    /\ DerNames(cert_out.der.val, "Issuer:") = <<<<"OID_MATTER_NODE_ID", Hex(16, 1)>>>>

====
